---- MODULE Spec2Model ----
(***************************************************************************)
(* fluentpy: Spanish words -> Anki flashcards.                             *)
(*                                                                         *)
(* The model follows the card lifecycle of the repository:                 *)
(*   session.py   create_session, generate_media_for_session,              *)
(*                regenerate_image, regenerate_audio                       *)
(*   review.py    review_session, review_card and its handlers             *)
(*   anki_export.py / cloze_export.py   media staging and CSV generation   *)
(*   models.py    WordCard, ClozeCard, Session                             *)
(*                                                                         *)
(* Text is modelled as a sequence: a word is a sequence of characters (so  *)
(* that lower() and replace(" ", "_") are computed), an opaque text is a   *)
(* one-element sequence.  None and the empty text are the empty sequence,  *)
(* which is what Python's truthiness tests (`if card.image_path`) see.     *)
(* A path is the pair <<directory, file name>>.                            *)
(***************************************************************************)
EXTENDS Integers, Sequences, FiniteSets, TLC

VARIABLES
    phase,               \* position of main(): which step of the pipeline runs
    vocabulary_inputs,   \* create_session argument
    cloze_inputs,        \* create_session argument
    uuid_next,           \* index of the next value uuid.uuid4() hands out
    atask,               \* create_session: one analysis task per input
    vocabulary_cards,    \* Session.vocabulary_cards
    cloze_cards,         \* Session.cloze_cards
    mtask,               \* generate_media_for_session: one task per card
    disk,                \* files of the output directory: path -> content
    auto_approve,        \* review_session argument
    selected_card,       \* review_session: index of the card under review, 0 if none
    prompted,            \* review_session: whether the last selection asked the user
    action,              \* review_card: the action the user chose last
    result_path,         \* regenerate_image / regenerate_audio: what the generation returned
    success,             \* return value of the last regenerate_image / regenerate_audio
    requested,           \* generation requests the last review action made
    anki_media_path,     \* AnkiConfig.anki_media_path: "unset", "missing" or "exists"
    anki_media,          \* files of Anki's collection.media: file name -> content
    copy_results,        \* result map of the last media staging
    csv_files,           \* CSV files written: path -> rows
    export_call,         \* the export entry point called last
    export_result,       \* its return value
    csv_io,              \* how the last attempt to write a CSV file went, "none" if none
    call,                \* the function applied on its own, "none" if none
    args,                \* its arguments
    ret                  \* what it returned or raised

vars == <<phase, vocabulary_inputs, cloze_inputs, uuid_next, atask,
          vocabulary_cards, cloze_cards, mtask, disk, auto_approve,
          selected_card, prompted, action, result_path, success, requested,
          anki_media_path,
          anki_media, copy_results, csv_files, export_call, export_result,
          csv_io, call, args, ret>>

sessionVars == <<vocabulary_cards, cloze_cards>>
createVars == <<vocabulary_inputs, cloze_inputs, uuid_next, atask>>
reviewVars == <<auto_approve, selected_card, prompted, action, result_path, success,
                requested>>
exportVars == <<anki_media_path, anki_media, copy_results, csv_files,
                export_call, export_result, csv_io>>
callVars == <<call, args, ret>>

----------------------------------------------------------------------------
(* Bounds *)

\* The number of words (vocabulary and cloze together) entered for a run
\* of create_session and generate_media_for_session
MaxWords == 3

\* The length of the sentences blank_word_in_sentence is applied to
MaxSentenceLen == 4

\* The number of voices get_mexican_spanish_voices finds
MaxVoices == 3

\* The number of words review_mnemonic_images is given, and the number of
\* times the user asks for a mnemonic image to be regenerated
MaxMnemonicWords == 2
MaxRegenerations == 1

----------------------------------------------------------------------------
(* Program constants *)

MAX_CONCURRENT_OPERATIONS == 2
ShortIdLen == 8

NULL == <<>>

OUTPUT_DIRECTORY == "output"

----------------------------------------------------------------------------
(* Text *)

\* str.lower() on one character
LowerChar(c) ==
    CASE c = "D" -> "d"
      [] c = "H" -> "h"
      [] c = "E" -> "e"
      [] c = "A" -> "a"
      [] OTHER -> c

\* str.upper() on one character
UpperChar(c) ==
    CASE c = "d" -> "D"
      [] c = "h" -> "H"
      [] c = "e" -> "E"
      [] c = "a" -> "A"
      [] OTHER -> c

\* The cased characters
Letters == {"D", "d", "H", "h", "E", "e", "A", "a", "b"}

\* str.title(): a letter is upper-cased after a character that is no letter
\* and lower-cased after a letter
Title(s) ==
    [i \in 1..Len(s) |->
        IF i = 1 \/ s[i - 1] \notin Letters THEN UpperChar(s[i]) ELSE LowerChar(s[i])]

\* separator.join(parts)
RECURSIVE Join(_, _)
Join(parts, separator) ==
    IF parts = <<>> THEN <<>>
    ELSE IF Len(parts) = 1 THEN parts[1]
    ELSE parts[1] \o <<separator>> \o Join(Tail(parts), separator)

\* str.lower()
Lower(s) == [i \in 1..Len(s) |-> LowerChar(s[i])]

\* str.replace(old, new) for single characters
Replace(s, old, new) == [i \in 1..Len(s) |-> IF s[i] = old THEN new ELSE s[i]]

\* The words the user may enter.
WordList == << <<"D", "e", " ", "H">>, <<"d", "e", "_", "h">> >>

Words == {WordList[k] : k \in 1..Len(WordList)}

\* The k-th vocabulary word and the k-th cloze word the user enters
VocabWord(k) == WordList[(((k - 1) \div 2) % Len(WordList)) + 1]
ClozeWord(k) == WordList[((k - 1) % Len(WordList)) + 1]

\* The values uuid.uuid4() hands out, one character longer than a short id:
\* pairwise different within their first eight characters (two GUIDs of one
\* run that agree there are not modelled).
HexDigit == <<"0", "1", "2", "3", "4", "5", "6", "7", "8", "9">>

Guid(k) ==
    [i \in 1..(ShortIdLen + 1) |->
        IF i = 1 THEN HexDigit[(k % 10) + 1]
        ELSE IF i = ShortIdLen + 1 THEN HexDigit[((3 * k) % 10) + 1]
        ELSE "0"]

\* Opaque text
Str(s) == <<s>>

----------------------------------------------------------------------------
(* word_analysis.py: what the analysis service answers for a word.  The    *)
(* service is a black box; the model lets it answer each word with one     *)
(* fixed analysis, different for different words.                          *)

ExampleSentence(sentence_text, word_form, ipa_text, tense, subject) ==
    [sentence |-> sentence_text, word_form |-> Str(word_form), ipa |-> ipa_text,
     tense |-> tense, subject |-> subject]

\* The example sentences the analysis returns for a word.  The response is
\* taken as it comes: the last example of the first word has an empty
\* sentence text.
ExamplesOf(word) ==
    IF word = WordList[1]
    THEN << ExampleSentence(Str("s1"), "f1", Str("i1"), Str("presente"), Str("yo")),
            ExampleSentence(Str("s2"), "f2", Str("i2"), NULL, NULL),
            ExampleSentence(NULL, "f0", NULL, NULL, NULL) >>
    ELSE << ExampleSentence(Str("s3"), "f3", NULL, Str("preterito"), NULL),
            ExampleSentence(Str("s4"), "f4", Str("i4"), NULL, Str("ella")) >>

WordAnalysis(word, request_examples) ==
    IF word = WordList[1]
    THEN [ipa |-> Str("ipa1"), part_of_speech |-> Str("verb"), gender |-> NULL,
          verb_type |-> Str("transitive"),
          example_sentences |-> IF request_examples THEN ExamplesOf(word) ELSE <<>>]
    ELSE [ipa |-> Str("ipa2"), part_of_speech |-> Str("noun"),
          gender |-> Str("masculine"), verb_type |-> NULL,
          example_sentences |-> IF request_examples THEN ExamplesOf(word) ELSE <<>>]

\* What the service may answer: a text that is no JSON, or the JSON text of
\* an object with some of the keys, of an array, a string, a number or null
ResponseKeys == {"ipa", "part_of_speech", "gender", "verb_type", "example_sentences"}

ResponseValue(key) ==
    CASE key = "ipa" -> Str("ipa1")
      [] key = "part_of_speech" -> Str("verb")
      [] key = "gender" -> NULL
      [] key = "verb_type" -> Str("transitive")
      [] OTHER -> ExamplesOf(WordList[1])

Responses ==
    {[kind |-> "object", value |-> [key \in keys |-> ResponseValue(key)]] :
        keys \in SUBSET ResponseKeys}
    \cup {[kind |-> "array", value |-> <<>>],
          [kind |-> "string", value |-> Str("verb")],
          [kind |-> "number", value |-> 42],
          [kind |-> "null", value |-> NULL],
          [kind |-> "malformed", value |-> Str("Not valid JSON")]}

\* json.loads: <<"value", the parsed value>> or the exception raised
json_loads(output_text) ==
    IF output_text.kind = "malformed" THEN <<"raise", "JSONDecodeError">>
    ELSE <<"value", [kind |-> output_text.kind, value |-> output_text.value]>>

\* data[key]: <<"value", v>>, or KeyError when a dict lacks the key, or
\* TypeError when data is no dict
Subscript(data, key) ==
    IF data.kind = "object"
    THEN IF key \in DOMAIN data.value THEN <<"value", data.value[key]>>
         ELSE <<"raise", "KeyError">>
    ELSE <<"raise", "TypeError">>

\* dict.get(key, default); reached only after two subscripts have succeeded
Get(data, key, default) ==
    IF key \in DOMAIN data.value THEN data.value[key] ELSE default

\* analyze_word from the response on: <<"return", analysis>> or
\* <<"raise", exception>>.  The except clause takes json.JSONDecodeError and
\* KeyError and raises ValueError; any other exception passes.
analyze_word(output_text) ==
    LET loaded == json_loads(output_text)
        analysis_data == loaded[2]
        raised ==
            IF loaded[1] = "raise" THEN loaded[2]
            ELSE IF Subscript(analysis_data, "ipa")[1] = "raise"
                 THEN Subscript(analysis_data, "ipa")[2]
            ELSE IF Subscript(analysis_data, "part_of_speech")[1] = "raise"
                 THEN Subscript(analysis_data, "part_of_speech")[2]
            ELSE "none"
    IN  IF raised = "none"
        THEN <<"return",
               [ipa |-> Subscript(analysis_data, "ipa")[2],
                part_of_speech |-> Subscript(analysis_data, "part_of_speech")[2],
                gender |-> Get(analysis_data, "gender", NULL),
                verb_type |-> Get(analysis_data, "verb_type", NULL),
                example_sentences |-> Get(analysis_data, "example_sentences", <<>>)]>>
        ELSE IF raised \in {"JSONDecodeError", "KeyError"}
             THEN <<"raise", "ValueError">>
             ELSE <<"raise", raised>>

----------------------------------------------------------------------------
(* models.py *)

WordInput(word) ==
    [word |-> word, personal_context |-> NULL, extra_image_prompt |-> NULL]

ClozeCardInput(word) ==
    [word |-> word, personal_context |-> NULL, extra_image_prompt |-> NULL,
     definitions |-> NULL]

WordCard(word_input, analysis, guid) ==
    [card_type |-> "vocabulary",
     word |-> word_input.word,
     ipa |-> analysis.ipa,
     part_of_speech |-> analysis.part_of_speech,
     gender |-> analysis.gender,
     verb_type |-> analysis.verb_type,
     personal_context |-> word_input.personal_context,
     extra_image_prompt |-> word_input.extra_image_prompt,
     image_path |-> NULL,
     audio_path |-> NULL,
     is_complete |-> FALSE,
     guid |-> guid]

ClozeCard(word_input, analysis, guid) ==
    [card_type |-> "cloze",
     word |-> word_input.word,
     word_analysis |-> analysis,
     selected_sentence |-> NULL,
     selected_word_form |-> NULL,
     selected_word_ipa |-> NULL,
     selected_tense |-> NULL,
     selected_subject |-> NULL,
     show_base_verb |-> FALSE,
     personal_context |-> word_input.personal_context,
     extra_prompt |-> word_input.extra_image_prompt,
     memory_aid |-> word_input.definitions,
     image_path |-> NULL,
     audio_path |-> NULL,
     is_complete |-> FALSE,
     guid |-> guid]

IsClozeCard(card) == card.card_type = "cloze"

\* Variant: the duplicate is the card itself with the other sentence and a
\* new GUID.
create_duplicate_keeping_media(card, sentence, word_form, new_guid) ==
    [card EXCEPT !.selected_sentence = sentence,
                 !.selected_word_form = word_form,
                 !.guid = new_guid]

\* ClozeCard.create_duplicate_with_sentence; `new_guid` is what uuid.uuid4()
\* hands out.  The fields that are not passed take their defaults.
create_duplicate_with_sentence(card, sentence, word_form, new_guid) ==
    [ClozeCard([word |-> card.word,
                personal_context |-> card.personal_context,
                extra_image_prompt |-> card.extra_prompt,
                definitions |-> card.memory_aid],
               card.word_analysis, new_guid)
     EXCEPT !.selected_sentence = sentence,
            !.selected_word_form = word_form,
            !.image_path = NULL,
            !.audio_path = NULL,
            !.is_complete = FALSE,
            !.card_type = card.card_type]

\* WordCard.short_id / ClozeCard.short_id
short_id(card) == SubSeq(card.guid, 1, ShortIdLen)

\* ClozeCard convenience properties and the WordCard fields of the same name
ipa(card) == IF IsClozeCard(card) THEN card.word_analysis.ipa ELSE card.ipa
part_of_speech(card) ==
    IF IsClozeCard(card) THEN card.word_analysis.part_of_speech ELSE card.part_of_speech
verb_type(card) ==
    IF IsClozeCard(card) THEN card.word_analysis.verb_type ELSE card.verb_type
gender(card) ==
    IF IsClozeCard(card) THEN card.word_analysis.gender ELSE card.gender
example_sentences(card) == card.word_analysis.example_sentences

\* Session.cards
cards == vocabulary_cards \o cloze_cards

CardIds == 1..Len(cards)

\* Session.incomplete_cards, as the indices into Session.cards, in order
incomplete_cards == SelectSeq([i \in 1..Len(cards) |-> i], LAMBDA i : ~cards[i].is_complete)

\* Session.is_complete
session_is_complete == \A i \in CardIds : cards[i].is_complete

\* Variant: the file is named after the word form selected for the card.
get_media_path_by_form(card, extension) ==
    LET named == IF IsClozeCard(card) /\ card.selected_word_form # NULL
                 THEN card.selected_word_form ELSE card.word
        filename == Replace(Lower(named), " ", "_") \o <<"-">> \o short_id(card) \o <<extension>>
    IN  <<OUTPUT_DIRECTORY, filename>>

\* Session.get_media_path
get_media_path(card, extension) ==
    LET clean_word == Replace(Lower(card.word), " ", "_")
        filename == clean_word \o <<"-">> \o short_id(card) \o <<extension>>
    IN  <<OUTPUT_DIRECTORY, filename>>

\* An assignment `card.<field> = value` to the i-th card of Session.cards:
\* the new values of the two card lists.
CardsWith(i, new_card) ==
    IF i <= Len(vocabulary_cards)
    THEN <<[vocabulary_cards EXCEPT ![i] = new_card], cloze_cards>>
    ELSE <<vocabulary_cards,
           [cloze_cards EXCEPT ![i - Len(vocabulary_cards)] = new_card]>>

\* Variant: the paths a task assigns also reach the cards of the tasks that
\* hold the semaphore at that moment.
StoreCardShared(i, new_card) ==
    LET others == {k \in DOMAIN mtask : mtask[k].pc = "inside"} \ {i}
        shared(k, card) ==
            IF k = i THEN new_card
            ELSE IF k \in others
                 THEN [card EXCEPT !.image_path = new_card.image_path]
                 ELSE card
        nv == Len(vocabulary_cards)
    IN  /\ vocabulary_cards' = [k \in 1..nv |-> shared(k, vocabulary_cards[k])]
        /\ cloze_cards' = [k \in 1..Len(cloze_cards) |-> shared(nv + k, cloze_cards[k])]

StoreCard(i, new_card) ==
    /\ vocabulary_cards' = CardsWith(i, new_card)[1]
    /\ cloze_cards' = CardsWith(i, new_card)[2]

----------------------------------------------------------------------------
(* images.py, audio.py: the two media collaborators, by the outcomes their *)
(* code has.                                                               *)

EXCEPTION == <<"Exception">>
PENDING == <<"pending">>

\* generate_image: the provider answers with image data, which is written to
\* the path and the path is returned ("ok"); or the call raises or no data
\* comes back, and generate_image raises before it opens the file ("raise").
ImageOutcomes == {"ok", "raise"}

generate_image_result(outcome, path) ==
    IF outcome = "ok" THEN path ELSE EXCEPTION

generate_image_disk(d, outcome, word, path) ==
    IF outcome = "ok"
    THEN [p \in DOMAIN d \cup {path} |->
            IF p = path THEN [kind |-> "image", text |-> word, whole |-> TRUE] ELSE d[p]]
    ELSE d

\* generate_audio: some voice's conversion completes, the file holds the
\* audio and the path is returned ("ok"); no voice is found or the attempts
\* end before the file is opened, None is returned ("none"); the attempts end
\* after open(path, "wb") truncated the file and before the stream was
\* written out, None is returned ("partial").  Every exception is caught
\* inside generate_audio.
AudioOutcomes == {"ok", "none", "partial"}

generate_audio_result(outcome, path) ==
    IF outcome = "ok" THEN path ELSE NULL

generate_audio_disk(d, outcome, text, path) ==
    CASE outcome = "ok" ->
            [p \in DOMAIN d \cup {path} |->
                IF p = path THEN [kind |-> "audio", text |-> text, whole |-> TRUE] ELSE d[p]]
      [] outcome = "partial" ->
            [p \in DOMAIN d \cup {path} |->
                IF p = path THEN [kind |-> "audio", text |-> text, whole |-> FALSE] ELSE d[p]]
      [] OTHER -> d

\* How the conversion with one voice goes: it completes, or it raises an
\* error whose text holds "free_users_not_allowed", or one whose text holds
\* "creator tier" in some case, or another error
VoiceOutcomes == {"ok", "free_users_not_allowed", "Creator Tier", "other"}

\* Variant: the next voice is tried after every error.
is_tier_error_any(error_str) == TRUE

\* generate_audio: the test on str(voice_error) that goes on to the next voice
is_tier_error(error_str) ==
    error_str = "free_users_not_allowed" \/ error_str = "Creator Tier"

\* generate_audio, the for loop from the n-th voice of voices_to_try on:
\* what the loop ends with ("return" with the path, "raise", or "exhausted")
\* and the voices tried, in order
RECURSIVE TryVoices(_, _, _)
TryVoices(voices_to_try, n, path) ==
    IF n > Len(voices_to_try) THEN [ended |-> "exhausted", value |-> NULL, tried |-> <<>>]
    ELSE IF voices_to_try[n] = "ok"
         THEN [ended |-> "return", value |-> path, tried |-> <<n>>]
    ELSE IF is_tier_error(voices_to_try[n])
         THEN LET rest == TryVoices(voices_to_try, n + 1, path)
              IN  [rest EXCEPT !.tried = <<n>> \o rest.tried]
    ELSE [ended |-> "raise", value |-> voices_to_try[n], tried |-> <<n>>]

\* generate_audio for the voices found, in the order random.shuffle leaves:
\* the outer `except Exception` turns what the loop raises into None
generate_audio(voices_to_try, path) ==
    IF voices_to_try = <<>>
    THEN [raised |-> "none", result |-> NULL, tried |-> <<>>]
    ELSE LET loop == TryVoices(voices_to_try, 1, path)
         IN  [raised |-> "none",
              result |-> IF loop.ended = "return" THEN loop.value ELSE NULL,
              tried |-> loop.tried]

\* Path(p).exists()
Exists(d, path) == path \in DOMAIN d

\* The text the audio of a card is generated from (session.py: the selected
\* sentence of a cloze card that has one, the word otherwise).
audio_text(card) ==
    IF IsClozeCard(card) /\ card.selected_sentence # NULL
    THEN card.selected_sentence
    ELSE card.word

----------------------------------------------------------------------------
(* session.py: create_session *)

all_inputs ==
    [k \in 1..(Len(vocabulary_inputs) + Len(cloze_inputs)) |->
        IF k <= Len(vocabulary_inputs)
        THEN <<vocabulary_inputs[k], "vocabulary">>
        ELSE <<cloze_inputs[k - Len(vocabulary_inputs)], "cloze">>]

\* Variant: a task whose request failed keeps its slot when it is done.
HoldingAfterFailure(tasks, inside) ==
    {i \in DOMAIN tasks :
        \/ tasks[i].pc = inside
        \/ /\ "results" \in DOMAIN tasks[i]
           /\ tasks[i].pc = "done"
           /\ tasks[i].results[1] = EXCEPTION}

\* The tasks holding the semaphore
Holding(tasks, inside) == {i \in DOMAIN tasks : tasks[i].pc = inside}

\* Variant: the semaphore admits one task too many.
SemaphoreFreeOffByOne(tasks, inside) ==
    Cardinality(Holding(tasks, inside)) <= MAX_CONCURRENT_OPERATIONS

\* asyncio.Semaphore(MAX_CONCURRENT_OPERATIONS): a task is admitted while
\* fewer than MAX_CONCURRENT_OPERATIONS hold it
SemaphoreFree(tasks, inside) ==
    Cardinality(Holding(tasks, inside)) < MAX_CONCURRENT_OPERATIONS

\* create_session up to the gather: an empty input returns the empty
\* session, otherwise one analysis task per input is created.
CreateSession ==
    /\ phase = "start"
    /\ IF Len(vocabulary_inputs) + Len(cloze_inputs) = 0
       THEN /\ phase' = "session"
            /\ atask' = <<>>
       ELSE /\ phase' = "create"
            /\ atask' = [k \in DOMAIN all_inputs |-> [pc |-> "waiting", result |-> PENDING]]
    /\ UNCHANGED <<vocabulary_inputs, cloze_inputs, uuid_next, sessionVars, mtask,
                   disk, reviewVars, exportVars, callVars>>

\* analyze_word_with_limit: `async with semaphore`
AnalysisAdmit(k) ==
    /\ phase \in {"create", "create_raised"}
    /\ atask[k].pc = "waiting"
    /\ SemaphoreFree(atask, "running")
    /\ atask' = [atask EXCEPT ![k].pc = "running"]
    /\ UNCHANGED <<phase, vocabulary_inputs, cloze_inputs, uuid_next, sessionVars,
                   mtask, disk, reviewVars, exportVars, callVars>>

\* Variant: the exception of a task is kept in its result and not handed on.
AnalysisReturnKeepingException(k, ok) ==
    /\ phase \in {"create", "create_raised"}
    /\ atask[k].pc = "running"
    /\ IF ok
       THEN atask' = [atask EXCEPT ![k] =
                         [pc |-> "done",
                          result |-> WordAnalysis(all_inputs[k][1].word,
                                                  all_inputs[k][2] = "cloze")]]
       ELSE atask' = [atask EXCEPT ![k] = [pc |-> "failed", result |-> EXCEPTION]]
    /\ UNCHANGED <<phase, vocabulary_inputs, cloze_inputs, uuid_next, sessionVars, mtask,
                   disk, reviewVars, exportVars, callVars>>

\* analyze_word returns the analysis of the task's word, or raises; the
\* semaphore is released either way.  gather hands the first exception to
\* create_session, which raises.
AnalysisReturn(k, ok) ==
    /\ phase \in {"create", "create_raised"}
    /\ atask[k].pc = "running"
    /\ IF ok
       THEN /\ atask' = [atask EXCEPT ![k] =
                           [pc |-> "done",
                            result |-> WordAnalysis(all_inputs[k][1].word,
                                                    all_inputs[k][2] = "cloze")]]
            /\ UNCHANGED phase
       ELSE /\ atask' = [atask EXCEPT ![k] = [pc |-> "failed", result |-> EXCEPTION]]
            /\ phase' = "create_raised"
    /\ UNCHANGED <<vocabulary_inputs, cloze_inputs, uuid_next, sessionVars, mtask,
                   disk, reviewVars, exportVars, callVars>>

\* The cards create_session builds after the gather, in input order; the
\* n-th card constructed takes the n-th value of uuid4().
NewCard(word_input, card_type, analysis, guid) ==
    IF card_type = "vocabulary"
    THEN WordCard(word_input, analysis, guid)
    ELSE ClozeCard(word_input, analysis, guid)

\* Variant: the analyses are paired with the inputs from the far end.
BuiltCardReversed(k) ==
    NewCard(all_inputs[k][1], all_inputs[k][2], atask[Len(atask) + 1 - k].result,
            Guid(uuid_next + k - 1))

BuiltCard(k) ==
    NewCard(all_inputs[k][1], all_inputs[k][2], atask[k].result, Guid(uuid_next + k - 1))

BuildSession ==
    /\ phase = "create"
    /\ \A k \in DOMAIN atask : atask[k].pc = "done"
    /\ vocabulary_cards' = [k \in 1..Len(vocabulary_inputs) |-> BuiltCard(k)]
    /\ cloze_cards' = [k \in 1..Len(cloze_inputs) |-> BuiltCard(Len(vocabulary_inputs) + k)]
    /\ uuid_next' = uuid_next + Len(atask)
    /\ phase' = "session"
    /\ UNCHANGED <<vocabulary_inputs, cloze_inputs, atask, mtask, disk, reviewVars,
                   exportVars, callVars>>

----------------------------------------------------------------------------
(* session.py: generate_media_for_session *)

\* One generate_media_for_card task per card of session.cards
GenerateMediaStart ==
    /\ phase = "session"
    /\ mtask' = [i \in CardIds |->
                    [pc |-> "waiting", results |-> <<PENDING, PENDING>>, issued |-> <<0, 0>>]]
    /\ phase' = "media"
    /\ UNCHANGED <<createVars, sessionVars, disk, reviewVars, exportVars, callVars>>

\* `async with semaphore`, then the two requests are created (each counted
\* in `issued`) and gathered
MediaAdmit(i) ==
    /\ phase = "media"
    /\ mtask[i].pc = "waiting"
    /\ SemaphoreFree(mtask, "inside")
    /\ mtask' = [mtask EXCEPT ![i].pc = "inside",
                             ![i].issued = <<mtask[i].issued[1] + 1, mtask[i].issued[2] + 1>>]
    /\ UNCHANGED <<phase, createVars, sessionVars, disk, reviewVars, exportVars, callVars>>

\* Variant: an image request that raised is issued once more.
ImageReturnRetrying(i, outcome) ==
    /\ phase = "media"
    /\ mtask[i].pc = "inside"
    /\ mtask[i].results[1] = PENDING
    /\ LET path == get_media_path(cards[i], ".jpg")
           again == outcome = "raise" /\ mtask[i].issued[1] = 1
       IN  /\ mtask' = IF again
                       THEN [mtask EXCEPT ![i].issued[1] = mtask[i].issued[1] + 1]
                       ELSE [mtask EXCEPT ![i].results[1] = generate_image_result(outcome, path)]
           /\ disk' = generate_image_disk(disk, outcome, cards[i].word, path)
    /\ UNCHANGED <<phase, createVars, sessionVars, reviewVars, exportVars, callVars>>

\* The image request of card i ends
ImageReturn(i, outcome) ==
    /\ phase = "media"
    /\ mtask[i].pc = "inside"
    /\ mtask[i].results[1] = PENDING
    /\ LET path == get_media_path(cards[i], ".jpg")
       IN  /\ mtask' = [mtask EXCEPT ![i].results[1] = generate_image_result(outcome, path)]
           /\ disk' = generate_image_disk(disk, outcome, cards[i].word, path)
    /\ UNCHANGED <<phase, createVars, sessionVars, reviewVars, exportVars, callVars>>

\* The audio request of card i ends
AudioReturn(i, outcome) ==
    /\ phase = "media"
    /\ mtask[i].pc = "inside"
    /\ mtask[i].results[2] = PENDING
    /\ LET path == get_media_path(cards[i], ".mp3")
       IN  /\ mtask' = [mtask EXCEPT ![i].results[2] = generate_audio_result(outcome, path)]
           /\ disk' = generate_audio_disk(disk, outcome, audio_text(cards[i]), path)
    /\ UNCHANGED <<phase, createVars, sessionVars, reviewVars, exportVars, callVars>>

\* Variant: a failed image request makes the task give up before the audio
\* result is handled.
MediaHandledImageFirst(card, results) ==
    IF results[1] = EXCEPTION
    THEN card
    ELSE [card EXCEPT !.image_path = get_media_path(card, ".jpg"),
                      !.audio_path = IF results[2] # EXCEPTION
                                     THEN get_media_path(card, ".mp3")
                                     ELSE card.audio_path]

\* The card as generate_media_for_card leaves it once the gather has returned
MediaHandled(card, results) ==
    LET with_image ==
            IF results[1] # EXCEPTION
            THEN [card EXCEPT !.image_path = get_media_path(card, ".jpg")]
            ELSE card
    IN  IF results[2] # EXCEPTION
        THEN [with_image EXCEPT !.audio_path = get_media_path(card, ".mp3")]
        ELSE with_image

\* Variant: the task handles the results and leaves the semaphore as soon as
\* its image request has ended.
MediaFinishAfterImage(i) ==
    /\ phase = "media"
    /\ mtask[i].pc = "inside"
    /\ mtask[i].results[1] # PENDING
    /\ StoreCard(i, MediaHandled(cards[i], mtask[i].results))
    /\ mtask' = [mtask EXCEPT ![i].pc = "done"]
    /\ UNCHANGED <<phase, createVars, disk, reviewVars, exportVars, callVars>>

\* Both requests of card i have ended: the results are handled and the
\* semaphore is released.
MediaFinish(i) ==
    /\ phase = "media"
    /\ mtask[i].pc = "inside"
    /\ mtask[i].results[1] # PENDING
    /\ mtask[i].results[2] # PENDING
    /\ StoreCard(i, MediaHandled(cards[i], mtask[i].results))
    /\ mtask' = [mtask EXCEPT ![i].pc = "done"]
    /\ UNCHANGED <<phase, createVars, disk, reviewVars, exportVars, callVars>>

\* The gather over the card tasks returns
MediaDone ==
    /\ phase = "media"
    /\ \A i \in DOMAIN mtask : mtask[i].pc = "done"
    /\ phase' = "media_done"
    /\ UNCHANGED <<createVars, sessionVars, mtask, disk, reviewVars, exportVars, callVars>>

----------------------------------------------------------------------------
(* The pipeline of main() up to the end of media generation *)

NoReview ==
    /\ auto_approve = FALSE
    /\ selected_card = 0
    /\ prompted = FALSE
    /\ action = "none"
    /\ result_path = NULL
    /\ success = "none"
    /\ requested = 0

NoCalls ==
    /\ call = "none"
    /\ args = <<>>
    /\ ret = <<>>

NoExport ==
    /\ anki_media_path = "exists"
    /\ anki_media = <<>>
    /\ copy_results = <<>>
    /\ csv_files = <<>>
    /\ export_call = "none"
    /\ export_result = "none"
    /\ csv_io = "none"

InitMedia ==
    /\ NoCalls
    /\ phase = "start"
    /\ vocabulary_inputs \in
         {[k \in 1..n |-> WordInput(VocabWord(k))] : n \in 0..MaxWords}
    /\ cloze_inputs \in
         {[k \in 1..n |-> ClozeCardInput(ClozeWord(k))] : n \in 0..MaxWords}
    /\ Len(vocabulary_inputs) + Len(cloze_inputs) <= MaxWords
    /\ uuid_next = 1
    /\ atask = <<>>
    /\ vocabulary_cards = <<>>
    /\ cloze_cards = <<>>
    /\ mtask = <<>>
    /\ disk = <<>>
    /\ NoReview
    /\ NoExport

NextMedia ==
    \/ CreateSession
    \/ \E k \in DOMAIN atask : AnalysisAdmit(k)
    \/ \E k \in DOMAIN atask, ok \in BOOLEAN : AnalysisReturn(k, ok)
    \/ BuildSession
    \/ GenerateMediaStart
    \/ \E i \in DOMAIN mtask : MediaAdmit(i)
    \/ \E i \in DOMAIN mtask, outcome \in ImageOutcomes : ImageReturn(i, outcome)
    \/ \E i \in DOMAIN mtask, outcome \in AudioOutcomes : AudioReturn(i, outcome)
    \/ \E i \in DOMAIN mtask : MediaFinish(i)
    \/ MediaDone

SpecMedia == InitMedia /\ [][NextMedia]_vars

----------------------------------------------------------------------------
(* session.py: regenerate_image, regenerate_audio *)

\* `if result_path:` after a generation that did not raise
Regenerated(result) == result # EXCEPTION /\ result # NULL

\* Variant: a failed regeneration clears the path field.
RegeneratedImageCardClearing(session_card, result) ==
    IF Regenerated(result)
    THEN [session_card EXCEPT !.image_path = get_media_path(session_card, ".jpg")]
    ELSE [session_card EXCEPT !.image_path = NULL]

\* The card as regenerate_image leaves it
RegeneratedImageCard(session_card, result) ==
    IF Regenerated(result)
    THEN [session_card EXCEPT !.image_path = get_media_path(session_card, ".jpg")]
    ELSE session_card

\* Variant: a failed audio regeneration clears the path field.
RegeneratedAudioCardClearing(session_card, result) ==
    IF Regenerated(result)
    THEN [session_card EXCEPT !.audio_path = result]
    ELSE [session_card EXCEPT !.audio_path = NULL]

\* The card as regenerate_audio leaves it: card.audio_path = Path(result_path)
RegeneratedAudioCard(session_card, result) ==
    IF Regenerated(result)
    THEN [session_card EXCEPT !.audio_path = result]
    ELSE session_card

\* The return value of regenerate_image / regenerate_audio
RegenerateReturn(result) == IF Regenerated(result) THEN "True" ELSE "False"

----------------------------------------------------------------------------
(* review.py: review_session, select_sentences_for_cloze_card, review_card *)

\* The elements of a set of numbers in increasing order (the checkbox hands
\* the checked entries back in the order they are listed)
RECURSIVE InOrder(_)
InOrder(S) ==
    IF S = {} THEN <<>>
    ELSE LET least == CHOOSE x \in S : \A y \in S : x <= y
         IN  <<least>> \o InOrder(S \ {least})

\* select_sentences_for_cloze_card: `checked` are the entries the user ticks
\* in the checkbox, `fallback` the one picked in the single select that is
\* asked when nothing was ticked.  Returns the list of
\* (sentence, word_form, ipa, tense, subject).
select_sentences_for_cloze_card(card, checked, fallback) ==
    LET selected_indices == IF checked = {} THEN <<fallback>> ELSE InOrder(checked)
    IN  [n \in 1..Len(selected_indices) |->
            LET sentence_data == example_sentences(card)[selected_indices[n]]
            IN  <<sentence_data.sentence, sentence_data.word_form, sentence_data.ipa,
                  sentence_data.tense, sentence_data.subject>>]

\* WithSelectedSentence taking the five fields from the last entry
WithSelectedSentenceLast(card, selected_sentences) ==
    IF selected_sentences # <<>>
    THEN LET last == selected_sentences[Len(selected_sentences)]
         IN  [card EXCEPT !.selected_sentence = last[1],
                          !.selected_word_form = last[2],
                          !.selected_word_ipa = last[3],
                          !.selected_tense = last[4],
                          !.selected_subject = last[5]]
    ELSE card

\* `if selected_sentences:` and the five assignments from the first entry
WithSelectedSentence(card, selected_sentences) ==
    IF selected_sentences # <<>>
    THEN [card EXCEPT !.selected_sentence = selected_sentences[1][1],
                      !.selected_word_form = selected_sentences[1][2],
                      !.selected_word_ipa = selected_sentences[1][3],
                      !.selected_tense = selected_sentences[1][4],
                      !.selected_subject = selected_sentences[1][5]]
    ELSE card

\* What the user may tick and pick for a card
SentenceIndices(card) ==
    IF IsClozeCard(card) THEN 1..Len(example_sentences(card)) ELSE {}

\* The answers the user can give to the sentence prompts of a card: what is
\* ticked and, when nothing is, what is picked in the single select
SentenceAnswers(card) ==
    {<<checked, fallback>> \in (SUBSET SentenceIndices(card)) \X (SentenceIndices(card) \cup {0}) :
        fallback = 0 <=> checked # {}}

\* review_session: the text of a card in the "Select a word to review" list
choice_text(card) ==
    LET display_word ==
            IF IsClozeCard(card) /\ card.selected_word_form # NULL
            THEN <<card.selected_word_form,
                   IF card.show_base_verb /\ verb_type(card) # NULL THEN card.word ELSE NULL,
                   card.selected_subject, card.selected_tense>>
            ELSE <<card.word>>
    IN  <<card.card_type, display_word, ipa(card), part_of_speech(card)>>

card_choices == [n \in 1..Len(incomplete_cards) |-> choice_text(cards[incomplete_cards[n]])]

\* card_choices.index(choice)
IndexOf(choices, choice) ==
    CHOOSE n \in 1..Len(choices) :
        /\ choices[n] = choice
        /\ \A m \in 1..(n - 1) : choices[m] # choice

\* Variant: the card is picked among all cards of the session.
SelectedAmongAll(highlighted) ==
    IF Len(cards) = 1 THEN 1 ELSE highlighted

\* review_session: the card picked for review, as its index in session.cards;
\* `highlighted` is the entry of the list the user confirms.
SelectedAmongIncomplete(highlighted) ==
    IF Len(card_choices) = 1
    THEN incomplete_cards[1]
    ELSE incomplete_cards[IndexOf(card_choices, card_choices[highlighted])]

\* Variant: the flag is left as it is.
mark_complete_unset(card) == card

\* mark_complete
mark_complete(card) == [card EXCEPT !.is_complete = TRUE]

\* Variant: the automatic approval completes only the cards that have an
\* image path.
ReviewStartChecking ==
    /\ phase = "media_done"
    /\ IF auto_approve
       THEN /\ vocabulary_cards' = [k \in DOMAIN vocabulary_cards |->
                    IF vocabulary_cards[k].image_path # NULL
                    THEN mark_complete(vocabulary_cards[k]) ELSE vocabulary_cards[k]]
            /\ cloze_cards' = [k \in DOMAIN cloze_cards |->
                    IF cloze_cards[k].image_path # NULL
                    THEN mark_complete(cloze_cards[k]) ELSE cloze_cards[k]]
            /\ phase' = "reviewed"
       ELSE /\ phase' = "review"
            /\ UNCHANGED sessionVars
    /\ UNCHANGED <<createVars, mtask, disk, reviewVars, exportVars, callVars>>

\* review_session is entered; with auto_approve every card is marked complete
\* and the function returns.
ReviewStart ==
    /\ phase = "media_done"
    /\ IF auto_approve
       THEN /\ vocabulary_cards' = [k \in DOMAIN vocabulary_cards |-> mark_complete(vocabulary_cards[k])]
            /\ cloze_cards' = [k \in DOMAIN cloze_cards |-> mark_complete(cloze_cards[k])]
            /\ phase' = "reviewed"
       ELSE /\ phase' = "review"
            /\ UNCHANGED sessionVars
    /\ UNCHANGED <<createVars, mtask, disk, reviewVars, exportVars, callVars>>

AtLoopHead == phase = "review" /\ selected_card = 0
InCardLoop == phase = "review" /\ selected_card # 0

\* `while not session.is_complete` is left
ReviewReturn ==
    /\ AtLoopHead
    /\ session_is_complete
    /\ phase' = "reviewed"
    /\ action' = "none"
    /\ result_path' = NULL
    /\ success' = "none"
    /\ requested' = 0
    /\ UNCHANGED <<createVars, sessionVars, mtask, disk, auto_approve, selected_card,
                   prompted, exportVars, callVars>>

\* One pass of the session loop up to the call of review_card: a card is
\* picked, and a cloze card without a sentence gets one selected.
ReviewSelect(highlighted, checked, fallback) ==
    /\ AtLoopHead
    /\ ~session_is_complete
    /\ LET i == SelectedAmongIncomplete(highlighted)
       IN  /\ selected_card' = i
           /\ prompted' = (Len(card_choices) # 1)
           /\ IF IsClozeCard(cards[i]) /\ cards[i].selected_sentence = NULL
              THEN StoreCard(i, WithSelectedSentence(cards[i],
                        select_sentences_for_cloze_card(cards[i], checked, fallback)))
              ELSE UNCHANGED sessionVars
    /\ action' = "none"
    /\ result_path' = NULL
    /\ success' = "none"
    /\ requested' = 0
    /\ UNCHANGED <<phase, createVars, mtask, disk, auto_approve, exportVars, callVars>>

\* Variant: a regeneration is offered only for a medium the card has a path for.
OfferedForPresentMedia(card) ==
    {"approve"}
        \cup (IF card.image_path # NULL THEN {"regen_image"} ELSE {})
        \cup (IF IsClozeCard(card) THEN {"change_sentence"} ELSE {})
        \cup (IF IsClozeCard(card) /\ verb_type(card) # NULL THEN {"toggle"} ELSE {})
        \cup (IF card.audio_path # NULL THEN {"regen_audio", "replay"} ELSE {})

\* review_card: the actions offered in one pass of the card loop
Offered(card) ==
    {"approve", "regen_image"}
        \cup (IF IsClozeCard(card) THEN {"change_sentence"} ELSE {})
        \cup (IF IsClozeCard(card) /\ verb_type(card) # NULL THEN {"toggle"} ELSE {})
        \cup (IF card.audio_path # NULL THEN {"regen_audio", "replay"} ELSE {})

\* review_card: the media found missing at an Approve
missing_media(card, d) ==
    (IF card.image_path = NULL \/ ~Exists(d, card.image_path) THEN {"image"} ELSE {})
        \cup (IF card.audio_path = NULL \/ ~Exists(d, card.audio_path) THEN {"audio"} ELSE {})

\* Variant: the Approve branch does not look at the audio.
ApproveAcceptedNoAudio(card, d) ==
    /\ ~(IsClozeCard(card) /\ card.selected_sentence = NULL)
    /\ ~(card.image_path = NULL \/ ~Exists(d, card.image_path))

\* review_card: an Approve goes through
ApproveAccepted(card, d) ==
    /\ ~(IsClozeCard(card) /\ card.selected_sentence = NULL)
    /\ missing_media(card, d) = {}

NoRegeneration ==
    /\ result_path' = NULL
    /\ success' = "none"
    /\ requested' = 0

\* Variant: an accepted Approve does not leave the card's loop.
ReviewApproveStaying ==
    /\ InCardLoop
    /\ "approve" \in Offered(cards[selected_card])
    /\ action' = "approve"
    /\ IF ApproveAccepted(cards[selected_card], disk)
       THEN /\ StoreCard(selected_card, mark_complete(cards[selected_card]))
            /\ UNCHANGED selected_card
       ELSE UNCHANGED <<sessionVars, selected_card>>
    /\ NoRegeneration
    /\ UNCHANGED <<phase, createVars, mtask, disk, auto_approve, prompted, exportVars, callVars>>

\* "Approve this card"
ReviewApprove ==
    /\ InCardLoop
    /\ "approve" \in Offered(cards[selected_card])
    /\ action' = "approve"
    /\ IF ApproveAccepted(cards[selected_card], disk)
       THEN /\ StoreCard(selected_card, mark_complete(cards[selected_card]))
            /\ selected_card' = 0
       ELSE UNCHANGED <<sessionVars, selected_card>>
    /\ NoRegeneration
    /\ UNCHANGED <<phase, createVars, mtask, disk, auto_approve, prompted, exportVars, callVars>>

\* "Change selected sentence" that also drops the audio of the old sentence
ReviewChangeSentenceDroppingAudio(checked, fallback) ==
    /\ InCardLoop
    /\ "change_sentence" \in Offered(cards[selected_card])
    /\ action' = "change_sentence"
    /\ StoreCard(selected_card,
            [WithSelectedSentence(cards[selected_card],
                select_sentences_for_cloze_card(cards[selected_card], checked, fallback))
             EXCEPT !.audio_path = NULL])
    /\ NoRegeneration
    /\ UNCHANGED <<phase, createVars, mtask, disk, auto_approve, selected_card, prompted,
                   exportVars, callVars>>

\* "Change selected sentence"
ReviewChangeSentence(checked, fallback) ==
    /\ InCardLoop
    /\ "change_sentence" \in Offered(cards[selected_card])
    /\ action' = "change_sentence"
    /\ StoreCard(selected_card, WithSelectedSentence(cards[selected_card],
            select_sentences_for_cloze_card(cards[selected_card], checked, fallback)))
    /\ NoRegeneration
    /\ UNCHANGED <<phase, createVars, mtask, disk, auto_approve, selected_card, prompted,
                   exportVars, callVars>>

\* "Base verb: shown / hidden"
ReviewToggleBaseVerb ==
    /\ InCardLoop
    /\ "toggle" \in Offered(cards[selected_card])
    /\ action' = "toggle"
    /\ StoreCard(selected_card,
                 [cards[selected_card] EXCEPT !.show_base_verb = ~cards[selected_card].show_base_verb])
    /\ NoRegeneration
    /\ UNCHANGED <<phase, createVars, mtask, disk, auto_approve, selected_card, prompted,
                   exportVars, callVars>>

\* "Regenerate image": handle_image_regeneration calls regenerate_image
ReviewRegenerateImage(outcome) ==
    /\ InCardLoop
    /\ "regen_image" \in Offered(cards[selected_card])
    /\ action' = "regen_image"
    /\ LET card == cards[selected_card]
           image_path == get_media_path(card, ".jpg")
           result == generate_image_result(outcome, image_path)
       IN  /\ disk' = generate_image_disk(disk, outcome, card.word, image_path)
           /\ StoreCard(selected_card, RegeneratedImageCard(card, result))
           /\ result_path' = result
           /\ success' = RegenerateReturn(result)
           /\ requested' = 1
    /\ UNCHANGED <<phase, createVars, mtask, auto_approve, selected_card, prompted,
                   exportVars, callVars>>

\* "Regenerate audio": handle_audio_regeneration calls regenerate_audio
ReviewRegenerateAudio(outcome) ==
    /\ InCardLoop
    /\ "regen_audio" \in Offered(cards[selected_card])
    /\ action' = "regen_audio"
    /\ LET card == cards[selected_card]
           audio_path == get_media_path(card, ".mp3")
           result == generate_audio_result(outcome, audio_path)
       IN  /\ disk' = generate_audio_disk(disk, outcome, audio_text(card), audio_path)
           /\ StoreCard(selected_card, RegeneratedAudioCard(card, result))
           /\ result_path' = result
           /\ success' = RegenerateReturn(result)
           /\ requested' = 1
    /\ UNCHANGED <<phase, createVars, mtask, auto_approve, selected_card, prompted,
                   exportVars, callVars>>

\* "Replay audio"
ReviewReplayAudio ==
    /\ InCardLoop
    /\ "replay" \in Offered(cards[selected_card])
    /\ action' = "replay"
    /\ NoRegeneration
    /\ UNCHANGED <<phase, createVars, sessionVars, mtask, disk, auto_approve,
                   selected_card, prompted, exportVars, callVars>>

----------------------------------------------------------------------------
(* The review of a session whose media have been generated *)

\* The number of vocabulary cards of a reviewed session
MaxReviewCards == 2

\* The sessions reviewed, as <<vocabulary cards, cloze cards>>: vocabulary
\* cards alone up to the bound, and one cloze card alone or after one
\* vocabulary card.
ReviewShapes ==
    {<<nv, 0>> : nv \in 0..MaxReviewCards} \cup {<<nv, 1>> : nv \in {0, 1}}

\* The k-th card of a session of nv vocabulary cards followed by cloze cards
SessionInput(k, nv) ==
    IF k <= nv THEN WordInput(VocabWord(k)) ELSE ClozeCardInput(ClozeWord(k - nv))

SessionCardType(k, nv) == IF k <= nv THEN "vocabulary" ELSE "cloze"

CreatedCard(k, nv) ==
    NewCard(SessionInput(k, nv), SessionCardType(k, nv),
            WordAnalysis(SessionInput(k, nv).word, k > nv), Guid(k))

\* What the two requests of a card returned
MediaResults(card, image_outcome, audio_outcome) ==
    <<generate_image_result(image_outcome, get_media_path(card, ".jpg")),
      generate_audio_result(audio_outcome, get_media_path(card, ".mp3"))>>

\* The output directory after the requests of the first n cards
RECURSIVE DiskAfterMedia(_, _, _, _)
DiskAfterMedia(n, nv, image_outcome, audio_outcome) ==
    IF n = 0 THEN <<>>
    ELSE LET card == CreatedCard(n, nv)
             before == DiskAfterMedia(n - 1, nv, image_outcome, audio_outcome)
             with_image == generate_image_disk(before, image_outcome[n], card.word,
                                               get_media_path(card, ".jpg"))
         IN  generate_audio_disk(with_image, audio_outcome[n], audio_text(card),
                                 get_media_path(card, ".mp3"))

\* The state generate_media_for_session leaves for a session of nv vocabulary
\* and nc cloze cards whose requests had the given outcomes
AfterMedia(nv, nc, image_outcome, audio_outcome) ==
    /\ phase = "media_done"
    /\ vocabulary_inputs = [k \in 1..nv |-> SessionInput(k, nv)]
    /\ cloze_inputs = [k \in 1..nc |-> SessionInput(nv + k, nv)]
    /\ uuid_next = nv + nc + 1
    /\ atask = [k \in 1..(nv + nc) |->
                  [pc |-> "done", result |-> WordAnalysis(SessionInput(k, nv).word, k > nv)]]
    /\ vocabulary_cards = [k \in 1..nv |->
          MediaHandled(CreatedCard(k, nv),
                       MediaResults(CreatedCard(k, nv), image_outcome[k], audio_outcome[k]))]
    /\ cloze_cards = [k \in 1..nc |->
          MediaHandled(CreatedCard(nv + k, nv),
                       MediaResults(CreatedCard(nv + k, nv), image_outcome[nv + k],
                                    audio_outcome[nv + k]))]
    /\ mtask = [k \in 1..(nv + nc) |->
                  [pc |-> "done",
                   results |-> MediaResults(CreatedCard(k, nv), image_outcome[k],
                                            audio_outcome[k]),
                   issued |-> <<1, 1>>]]
    /\ disk = DiskAfterMedia(nv + nc, nv, image_outcome, audio_outcome)

InitReview ==
    /\ NoCalls
    /\ \E shape \in ReviewShapes :
         \E image_outcome \in [1..(shape[1] + shape[2]) -> ImageOutcomes] :
           \E audio_outcome \in [1..(shape[1] + shape[2]) -> AudioOutcomes] :
             AfterMedia(shape[1], shape[2], image_outcome, audio_outcome)
    /\ auto_approve \in BOOLEAN
    /\ selected_card = 0
    /\ prompted = FALSE
    /\ action = "none"
    /\ result_path = NULL
    /\ success = "none"
    /\ requested = 0
    /\ NoExport

NextReview ==
    \/ ReviewStart
    \/ ReviewReturn
    \/ /\ AtLoopHead
       /\ \E highlighted \in 1..Len(card_choices) :
             LET card == cards[SelectedAmongIncomplete(highlighted)]
             IN  IF IsClozeCard(card) /\ card.selected_sentence = NULL
                 THEN \E answer \in SentenceAnswers(card) :
                         ReviewSelect(highlighted, answer[1], answer[2])
                 ELSE ReviewSelect(highlighted, {}, 0)
    \/ ReviewApprove
    \/ /\ InCardLoop
       /\ \E answer \in SentenceAnswers(cards[selected_card]) :
             ReviewChangeSentence(answer[1], answer[2])
    \/ ReviewToggleBaseVerb
    \/ \E outcome \in ImageOutcomes : ReviewRegenerateImage(outcome)
    \/ \E outcome \in AudioOutcomes : ReviewRegenerateAudio(outcome)
    \/ ReviewReplayAudio

SpecReview == InitReview /\ [][NextReview]_vars

\* The review with a user who goes on until the session is complete and
\* services that answer in the end: a regeneration that is asked for again
\* and again succeeds at some point, a cloze card that is kept under review
\* gets a sentence with text, and a card that can be approved again and
\* again is approved.
ImageRegenerates == ReviewRegenerateImage("ok")

AudioRegenerates == ReviewRegenerateAudio("ok")

SentenceChosen ==
    /\ InCardLoop
    /\ \E answer \in SentenceAnswers(cards[selected_card]) :
          /\ ReviewChangeSentence(answer[1], answer[2])
          /\ cards'[selected_card].selected_sentence # NULL

ApproveGoesThrough ==
    /\ InCardLoop
    /\ ApproveAccepted(cards[selected_card], disk)
    /\ ReviewApprove

CardPicked ==
    /\ AtLoopHead
    /\ ~session_is_complete
    /\ \E highlighted \in 1..Len(card_choices) :
          LET card == cards[SelectedAmongIncomplete(highlighted)]
          IN  IF IsClozeCard(card) /\ card.selected_sentence = NULL
              THEN \E answer \in SentenceAnswers(card) :
                      ReviewSelect(highlighted, answer[1], answer[2])
              ELSE ReviewSelect(highlighted, {}, 0)

\* review_session moves on where it does not wait for the user's choice of an
\* action: it is entered, it picks the next card, it returns
SessionAdvances == ReviewStart \/ CardPicked \/ ReviewReturn

\* The sessions whose review is followed to its end: one cloze card, or
\* vocabulary cards alone, one fewer than in the sessions of SpecReview
FairShapes ==
    {<<0, 1>>} \cup {<<nv, 0>> : nv \in 1..(MaxReviewCards - 1)}

InitReviewFair ==
    /\ InitReview
    /\ <<Len(vocabulary_cards), Len(cloze_cards)>> \in FairShapes

SpecReviewFair ==
    /\ InitReviewFair
    /\ [][NextReview]_vars
    /\ WF_vars(SessionAdvances)
    /\ WF_vars(ImageRegenerates)
    /\ WF_vars(AudioRegenerates)
    /\ WF_vars(SentenceChosen)
    /\ SF_vars(ApproveGoesThrough)

----------------------------------------------------------------------------
(* generate_media_for_session with calls that end and tasks that are run *)

\* The session create_session hands over for nv vocabulary words
SessionCreated(nv) ==
    /\ phase = "session"
    /\ vocabulary_inputs = [k \in 1..nv |-> SessionInput(k, nv)]
    /\ cloze_inputs = <<>>
    /\ uuid_next = nv + 1
    /\ atask = [k \in 1..nv |->
                  [pc |-> "done", result |-> WordAnalysis(SessionInput(k, nv).word, FALSE)]]
    /\ vocabulary_cards = [k \in 1..nv |-> CreatedCard(k, nv)]
    /\ cloze_cards = <<>>
    /\ mtask = <<>>
    /\ disk = <<>>

InitMediaFair ==
    /\ NoCalls
    /\ \E nv \in 0..MaxWords : SessionCreated(nv)
    /\ NoReview
    /\ NoExport

\* The steps of the tasks themselves
MediaTaskRuns ==
    \/ GenerateMediaStart
    \/ \E i \in DOMAIN mtask : MediaAdmit(i)
    \/ \E i \in DOMAIN mtask : MediaFinish(i)
    \/ MediaDone

ImageCallEnds == \E i \in DOMAIN mtask, outcome \in ImageOutcomes : ImageReturn(i, outcome)

AudioCallEnds == \E i \in DOMAIN mtask, outcome \in AudioOutcomes : AudioReturn(i, outcome)

\* The event loop runs a task that can go on and every image and audio call
\* returns or raises in the end: as every step is taken once at most, it is
\* enough that the generation does not stop while a step can be taken.
NextMediaFair == MediaTaskRuns \/ ImageCallEnds \/ AudioCallEnds

SpecMediaFair ==
    /\ InitMediaFair
    /\ [][NextMediaFair]_vars
    /\ WF_vars(NextMediaFair)

----------------------------------------------------------------------------
(* main.py: the pipeline from the inputs to the end of the review *)

\* The number of words of a session followed from its inputs through the
\* review
MaxPipelineWords == 1

\* At most one of the words is a cloze word.
InitPipeline ==
    /\ InitMedia
    /\ Len(cloze_inputs) <= 1
    /\ Len(vocabulary_inputs) + Len(cloze_inputs) <= MaxPipelineWords

NextPipeline == NextMedia \/ NextReview

SpecPipeline == InitPipeline /\ [][NextPipeline]_vars

----------------------------------------------------------------------------
(* config.py, anki_export.py, cloze_export.py: the two exporters *)

\* dict[key] = value
Put(f, key, value) ==
    [x \in DOMAIN f \cup {key} |-> IF x = key THEN value ELSE f[x]]

\* AnkiConfig.SPANISH_PARTS_OF_SPEECH, SPANISH_GENDER, SPANISH_VERB_TYPES
SPANISH_PARTS_OF_SPEECH ==
    [pos \in {Str("noun"), Str("verb"), Str("adjective"), Str("adverb"), Str("pronoun"),
              Str("preposition"), Str("conjunction"), Str("article"), Str("interjection")} |->
        CASE pos = Str("noun") -> Str("Sustantivo")
          [] pos = Str("verb") -> Str("Verbo")
          [] pos = Str("adjective") -> Str("Adjetivo")
          [] pos = Str("adverb") -> Str("Adverbio")
          [] pos = Str("pronoun") -> Str("Pronombre")
          [] pos = Str("preposition") -> Str("Preposicion")
          [] pos = Str("conjunction") -> Str("Conjuncion")
          [] pos = Str("article") -> Str("Articulo")
          [] OTHER -> Str("Interjeccion")]

SPANISH_GENDER ==
    [g \in {Str("masculine"), Str("feminine")} |->
        IF g = Str("masculine") THEN Str("masculino") ELSE Str("femenino")]

SPANISH_VERB_TYPES ==
    [vt \in {Str("transitive"), Str("intransitive"), Str("reflexive"), Str("pronominal")} |->
        CASE vt = Str("transitive") -> Str("transitivo")
          [] vt = Str("intransitive") -> Str("intransitivo")
          [] vt = Str("reflexive") -> Str("reflexivo")
          [] OTHER -> Str("pronominal")]

\* AnkiConfig.get_spanish_part_of_speech
get_spanish_part_of_speech(pos) ==
    IF pos \in DOMAIN SPANISH_PARTS_OF_SPEECH THEN SPANISH_PARTS_OF_SPEECH[pos]
    ELSE Title(pos)

\* AnkiConfig.get_spanish_gender
get_spanish_gender(g) ==
    IF g = NULL THEN NULL
    ELSE IF g \in DOMAIN SPANISH_GENDER THEN SPANISH_GENDER[g]
    ELSE g

\* AnkiConfig.get_spanish_verb_type
get_spanish_verb_type(vt) ==
    IF vt = NULL THEN NULL
    ELSE IF vt \in DOMAIN SPANISH_VERB_TYPES THEN SPANISH_VERB_TYPES[vt]
    ELSE vt

\* Variant: the gender is added for every part of speech that has one.
create_field_3_content_any_gender(card) ==
    LET spanish_pos == get_spanish_part_of_speech(part_of_speech(card))
        first ==
            IF gender(card) # NULL
            THEN spanish_pos \o <<" ">> \o get_spanish_gender(gender(card))
            ELSE IF part_of_speech(card) = Str("verb") /\ verb_type(card) # NULL
                 THEN spanish_pos \o <<" ">> \o get_spanish_verb_type(verb_type(card))
                 ELSE spanish_pos
        parts ==
            <<first>> \o (IF card.personal_context # NULL THEN <<card.personal_context>> ELSE <<>>)
    IN  Join(parts, ". ") \o <<".">>

\* create_field_3_content: `parts` is never empty, so the text always ends
\* with the period
create_field_3_content(card) ==
    LET spanish_pos == get_spanish_part_of_speech(part_of_speech(card))
        first ==
            IF part_of_speech(card) = Str("noun") /\ gender(card) # NULL
            THEN spanish_pos \o <<" ">> \o get_spanish_gender(gender(card))
            ELSE IF part_of_speech(card) = Str("verb") /\ verb_type(card) # NULL
                 THEN spanish_pos \o <<" ">> \o get_spanish_verb_type(verb_type(card))
                 ELSE spanish_pos
        parts ==
            <<first>> \o (IF card.personal_context # NULL THEN <<card.personal_context>> ELSE <<>>)
    IN  Join(parts, ". ") \o <<".">>

\* The two tags of the exported rows
ImgTag(filename) == <<"<img src=", filename, ">">>
SoundTag(filename) == <<"[sound:", filename, "]">>

\* create_csv_row, create_cloze_csv_row: the file name inside the tags
row_filename(card, extension) ==
    Replace(Lower(card.word), " ", "_") \o <<"-">> \o short_id(card) \o <<extension>>

\* Variant: the staged copy is named by the word as it was entered.
dest_filename_raw_word(card, extension) ==
    card.word \o <<"-">> \o short_id(card) \o <<extension>>

\* copy_media_files, copy_cloze_media_files: the name of the copy in the Anki
\* media directory
dest_filename(card, extension) ==
    Replace(Lower(card.word), " ", "_") \o <<"-">> \o short_id(card) \o <<extension>>

\* create_csv_row
create_csv_row(card, test_spelling) ==
    LET picture ==
            IF card.image_path # NULL THEN ImgTag(row_filename(card, ".jpg")) ELSE NULL
        sound ==
            IF card.audio_path # NULL THEN <<SoundTag(row_filename(card, ".mp3"))>> ELSE <<>>
        spoken ==
            IF IsClozeCard(card) /\ card.selected_word_ipa # NULL
            THEN <<card.selected_word_ipa>>
            ELSE IF ipa(card) # NULL THEN <<ipa(card)>> ELSE <<>>
    IN  <<card.word, picture, create_field_3_content(card), sound \o spoken,
          IF test_spelling THEN Str("y") ELSE NULL, card.guid>>

\* \w of the regular expressions: letters, digits and the underscore
WordChars == Letters \cup {"_"}

IsWordAt(text, p) == p \in 1..Len(text) /\ text[p] \in WordChars

\* \b before the p-th character (after the last one when p = Len + 1)
WordBoundary(text, p) == IsWordAt(text, p - 1) # IsWordAt(text, p)

\* Variant: the pattern is matched with the case of the target word.
MatchesAtCaseSensitive(sentence, target_word, p) ==
    /\ p + Len(target_word) - 1 <= Len(sentence)
    /\ WordBoundary(sentence, p)
    /\ \A k \in 1..Len(target_word) : sentence[p + k - 1] = target_word[k]
    /\ WordBoundary(sentence, p + Len(target_word))

\* blank_word_in_sentence: rf"\b{re.escape(target_word)}\b" with
\* re.IGNORECASE matches at the p-th character of the sentence
MatchesAt(sentence, target_word, p) ==
    /\ p + Len(target_word) - 1 <= Len(sentence)
    /\ WordBoundary(sentence, p)
    /\ \A k \in 1..Len(target_word) :
          LowerChar(sentence[p + k - 1]) = LowerChar(target_word[k])
    /\ WordBoundary(sentence, p + Len(target_word))

\* The replacement text
BLANK == <<"_", "_", "_", "_", "_", "_">>

\* re.sub from the p-th character on: the matches are taken from left to
\* right, the search going on after the end of a match
RECURSIVE Sub(_, _, _)
Sub(sentence, target_word, p) ==
    IF p > Len(sentence) THEN <<>>
    ELSE IF MatchesAt(sentence, target_word, p)
         THEN BLANK \o Sub(sentence, target_word, p + Len(target_word))
         ELSE <<sentence[p]>> \o Sub(sentence, target_word, p + 1)

\* blank_word_in_sentence
blank_word_in_sentence(sentence, target_word) == Sub(sentence, target_word, 1)

\* Variant: the row without the three padding fields.
create_cloze_csv_row_unpadded(card) ==
    LET front_example ==
            IF card.selected_sentence # NULL /\ card.selected_word_form # NULL
            THEN blank_word_in_sentence(card.selected_sentence, card.selected_word_form)
            ELSE NULL
        front_picture ==
            IF card.image_path # NULL THEN ImgTag(row_filename(card, ".jpg")) ELSE NULL
        verb_info_parts ==
            (IF verb_type(card) # NULL
             THEN IF card.show_base_verb THEN <<<<verb_type(card), card.word>>>>
                  ELSE <<verb_type(card)>>
             ELSE <<>>)
            \o (IF card.selected_subject # NULL THEN <<card.selected_subject>> ELSE <<>>)
            \o (IF card.selected_tense # NULL THEN <<card.selected_tense>> ELSE <<>>)
        front_definitions ==
            (IF card.memory_aid # NULL THEN <<card.memory_aid>> ELSE <<>>)
            \o (IF verb_info_parts # <<>> THEN <<verb_info_parts>> ELSE <<>>)
        extra_info ==
            (IF card.audio_path # NULL THEN <<SoundTag(row_filename(card, ".mp3"))>> ELSE <<>>)
            \o (IF card.selected_word_ipa # NULL THEN <<card.selected_word_ipa>>
                ELSE IF ipa(card) # NULL THEN <<ipa(card)>> ELSE <<>>)
            \o (IF card.personal_context # NULL THEN <<card.personal_context>> ELSE <<>>)
    IN  <<front_example, front_picture, front_definitions, card.word,
          card.selected_sentence, extra_info, NULL>>

\* create_cloze_csv_row.  No word of the session has a mnemonic image.
create_cloze_csv_row(card) ==
    LET front_example ==
            IF card.selected_sentence # NULL /\ card.selected_word_form # NULL
            THEN blank_word_in_sentence(card.selected_sentence, card.selected_word_form)
            ELSE NULL
        front_picture ==
            IF card.image_path # NULL THEN ImgTag(row_filename(card, ".jpg")) ELSE NULL
        verb_info_parts ==
            (IF verb_type(card) # NULL
             THEN IF card.show_base_verb THEN <<<<verb_type(card), card.word>>>>
                  ELSE <<verb_type(card)>>
             ELSE <<>>)
            \o (IF card.selected_subject # NULL THEN <<card.selected_subject>> ELSE <<>>)
            \o (IF card.selected_tense # NULL THEN <<card.selected_tense>> ELSE <<>>)
        front_definitions ==
            (IF card.memory_aid # NULL THEN <<card.memory_aid>> ELSE <<>>)
            \o (IF verb_info_parts # <<>> THEN <<verb_info_parts>> ELSE <<>>)
        extra_info ==
            (IF card.audio_path # NULL THEN <<SoundTag(row_filename(card, ".mp3"))>> ELSE <<>>)
            \o (IF card.selected_word_ipa # NULL THEN <<card.selected_word_ipa>>
                ELSE IF ipa(card) # NULL THEN <<ipa(card)>> ELSE <<>>)
            \o (IF card.personal_context # NULL THEN <<card.personal_context>> ELSE <<>>)
    IN  <<front_example, front_picture, front_definitions, card.word,
          card.selected_sentence, extra_info, NULL, NULL, NULL, NULL>>

\* Variant: only a directory that is not configured is refused.
MediaPathRaisesUnsetOnly(path_state) == path_state = "unset"

\* Variant: the directory is never found.
MediaPathRaisesAlways(path_state) == TRUE

\* copy_media_files, copy_cloze_media_files: the two checks that raise
\* ValueError before anything is copied
MediaPathRaises(path_state) == path_state # "exists"

\* One shutil.copy2 inside its try; `failing` are the destination names whose
\* copy raises.  `staged` is the pair of result map and directory content.
CopyOne(staged, key, d, source, filename, failing) ==
    IF filename \in failing
    THEN [results |-> Put(staged.results, key, FALSE), media |-> staged.media]
    ELSE [results |-> Put(staged.results, key, TRUE),
          media |-> Put(staged.media, filename, d[source])]

\* The loop of copy_media_files / copy_cloze_media_files over the first n
\* cards of the list
RECURSIVE CopyLoop(_, _, _, _, _)
CopyLoop(card_list, n, d, media, failing) ==
    IF n = 0 THEN [results |-> <<>>, media |-> media]
    ELSE LET before == CopyLoop(card_list, n - 1, d, media, failing)
             card == card_list[n]
             with_image ==
                 IF card.image_path # NULL /\ Exists(d, card.image_path)
                 THEN CopyOne(before, <<card.word, "_image">>, d, card.image_path,
                              dest_filename(card, ".jpg"), failing)
                 ELSE before
             with_audio ==
                 IF card.audio_path # NULL /\ Exists(d, card.audio_path)
                 THEN CopyOne(with_image, <<card.word, "_audio">>, d, card.audio_path,
                              dest_filename(card, ".mp3"), failing)
                 ELSE with_image
         IN  IF ~card.is_complete THEN before ELSE with_audio

\* The destination names a staging of the list would copy to
CopyTargets(card_list, d) ==
    {dest_filename(card_list[n], ".jpg") :
        n \in {m \in DOMAIN card_list : card_list[m].is_complete
                    /\ card_list[m].image_path # NULL
                    /\ Exists(d, card_list[m].image_path)}}
    \cup
    {dest_filename(card_list[n], ".mp3") :
        n \in {m \in DOMAIN card_list : card_list[m].is_complete
                    /\ card_list[m].audio_path # NULL
                    /\ Exists(d, card_list[m].audio_path)}}

\* The copies that fail in one staging: none, or one of them
CopyFailures(card_list, d) == {{}} \cup {{filename} : filename \in CopyTargets(card_list, d)}

\* Variant: only the first card of the list is looked at.
incomplete_first_only(card_list) ==
    {n \in DOMAIN card_list : n = 1 /\ ~card_list[n].is_complete}

\* [card for card in ... if not card.is_complete]
incomplete_of(card_list) == {n \in DOMAIN card_list : ~card_list[n].is_complete}

\* What opening and writing the CSV file can come to: written and closed;
\* open() raises; the file is opened and an error ends the writing
CsvOutcomes == {"ok", "open_fails", "write_fails"}

VOCABULARY_CSV == <<OUTPUT_DIRECTORY, "anki_import.csv">>
CLOZE_CSV == <<OUTPUT_DIRECTORY, "anki_import_cloze.csv">>

\* The rows written for the complete cards of the list, in order
RECURSIVE RowsOf(_, _, _)
RowsOf(card_list, n, exporter) ==
    IF n = 0 THEN <<>>
    ELSE RowsOf(card_list, n - 1, exporter)
            \o (IF card_list[n].is_complete
                THEN <<IF exporter = "vocabulary"
                       THEN create_csv_row(card_list[n], FALSE)
                       ELSE create_cloze_csv_row(card_list[n])>>
                ELSE <<>>)

\* AnkiConfig.FIELD_NAMES, ClozeAnkiConfig.FIELD_NAMES
FIELD_NAMES(exporter) ==
    IF exporter = "vocabulary"
    THEN <<Str("Word"), Str("Picture"),
           Str("Gender, Personal Connection, Extra Info (Back side)"),
           Str("Pronunciation (Recording and/or IPA)"),
           Str("Test Spelling? (y = yes, blank = no)"), Str("guid")>>
    ELSE <<Str("Front (Example with word blanked out or missing)"),
           Str("Front (Picture)"),
           Str("Front (Definitions, base word, etc.)"),
           Str("Back (a single word/phrase, no context)"),
           Str("- The full sentence (no words blanked out)"),
           Str("- Extra Info (Pronunciation, personal connections, conjugations, etc)")>>

\* The file the `with open(output_path, "w")` block leaves: `fields` are the
\* names of the "#fields:" line, which "\t".join puts between tabs
CsvWritten(files, path, card_list, exporter, io) ==
    CASE io = "ok" ->
            Put(files, path, [exporter |-> exporter, whole |-> TRUE,
                              fields |-> FIELD_NAMES(exporter),
                              rows |-> RowsOf(card_list, Len(card_list), exporter)])
      [] io = "write_fails" ->
            Put(files, path, [exporter |-> exporter, whole |-> FALSE,
                              fields |-> <<>>, rows |-> <<>>])
      [] OTHER -> files

\* Variant: the completeness of every card of the session is required.
generate_csv_outcome_all_cards(files, io) ==
    IF incomplete_of(cards) # {}
    THEN <<"False", files, "none">>
    ELSE <<IF io = "ok" THEN "True" ELSE "False",
           CsvWritten(files, VOCABULARY_CSV, vocabulary_cards, "vocabulary", io), io>>

\* generate_csv / generate_cloze_csv as <<return value, files, csv_io>>
generate_csv_outcome(files, io) ==
    IF incomplete_of(vocabulary_cards) # {}
    THEN <<"False", files, "none">>
    ELSE <<IF io = "ok" THEN "True" ELSE "False",
           CsvWritten(files, VOCABULARY_CSV, vocabulary_cards, "vocabulary", io), io>>

generate_cloze_csv_outcome(files, io) ==
    IF incomplete_of(cloze_cards) # {}
    THEN <<"False", files, "none">>
    ELSE IF cloze_cards = <<>>
         THEN <<"True", files, "none">>
         ELSE <<IF io = "ok" THEN "True" ELSE "False",
                CsvWritten(files, CLOZE_CSV, cloze_cards, "cloze", io), io>>

\* The export entry points are called on a session that went through media
\* generation and review; main() calls the cloze exporter after the
\* vocabulary exporter.
CanCall == phase = "export" /\ export_call = "none"
CanCallCloze == phase = "export" /\ export_call \in {"none", "export_to_anki"}

ExportUnchanged == UNCHANGED <<phase, createVars, sessionVars, mtask, disk, reviewVars,
                               anki_media_path, callVars>>

\* copy_media_files
CopyMediaFiles(failing) ==
    /\ CanCall
    /\ export_call' = "copy_media_files"
    /\ IF MediaPathRaises(anki_media_path)
       THEN /\ export_result' = "raised"
            /\ UNCHANGED <<copy_results, anki_media>>
       ELSE LET staged == CopyLoop(vocabulary_cards, Len(vocabulary_cards), disk,
                                   anki_media, failing)
            IN  /\ export_result' = "returned"
                /\ copy_results' = staged.results
                /\ anki_media' = staged.media
    /\ UNCHANGED <<csv_files, csv_io>>
    /\ ExportUnchanged

\* generate_csv
GenerateCsv(io) ==
    /\ CanCall
    /\ export_call' = "generate_csv"
    /\ export_result' = generate_csv_outcome(csv_files, io)[1]
    /\ csv_files' = generate_csv_outcome(csv_files, io)[2]
    /\ csv_io' = generate_csv_outcome(csv_files, io)[3]
    /\ UNCHANGED <<copy_results, anki_media>>
    /\ ExportUnchanged

\* Variant: the error of the staging is passed on to the caller.
ExportToAnkiPassingOn(failing, io) ==
    /\ CanCall
    /\ export_call' = "export_to_anki"
    /\ IF incomplete_of(vocabulary_cards) # {}
       THEN /\ export_result' = "False"
            /\ UNCHANGED <<copy_results, anki_media, csv_files, csv_io>>
       ELSE IF MediaPathRaises(anki_media_path)
            THEN /\ export_result' = "raised"
                 /\ UNCHANGED <<copy_results, anki_media, csv_files, csv_io>>
            ELSE LET staged == CopyLoop(vocabulary_cards, Len(vocabulary_cards), disk,
                                        anki_media, failing)
                 IN  /\ copy_results' = staged.results
                     /\ anki_media' = staged.media
                     /\ export_result' = generate_csv_outcome(csv_files, io)[1]
                     /\ csv_files' = generate_csv_outcome(csv_files, io)[2]
                     /\ csv_io' = generate_csv_outcome(csv_files, io)[3]
    /\ ExportUnchanged

\* export_to_anki
ExportToAnki(failing, io) ==
    /\ CanCall
    /\ export_call' = "export_to_anki"
    /\ IF incomplete_of(vocabulary_cards) # {} \/ MediaPathRaises(anki_media_path)
       THEN /\ export_result' = "False"
            /\ UNCHANGED <<copy_results, anki_media, csv_files, csv_io>>
       ELSE LET staged == CopyLoop(vocabulary_cards, Len(vocabulary_cards), disk,
                                   anki_media, failing)
            IN  /\ copy_results' = staged.results
                /\ anki_media' = staged.media
                /\ export_result' = generate_csv_outcome(csv_files, io)[1]
                /\ csv_files' = generate_csv_outcome(csv_files, io)[2]
                /\ csv_io' = generate_csv_outcome(csv_files, io)[3]
    /\ ExportUnchanged

\* copy_cloze_media_files
CopyClozeMediaFiles(failing) ==
    /\ CanCall
    /\ export_call' = "copy_cloze_media_files"
    /\ IF MediaPathRaises(anki_media_path)
       THEN /\ export_result' = "raised"
            /\ UNCHANGED <<copy_results, anki_media>>
       ELSE LET staged == CopyLoop(cloze_cards, Len(cloze_cards), disk, anki_media, failing)
            IN  /\ export_result' = "returned"
                /\ copy_results' = staged.results
                /\ anki_media' = staged.media
    /\ UNCHANGED <<csv_files, csv_io>>
    /\ ExportUnchanged

\* generate_cloze_csv
GenerateClozeCsv(io) ==
    /\ CanCall
    /\ export_call' = "generate_cloze_csv"
    /\ export_result' = generate_cloze_csv_outcome(csv_files, io)[1]
    /\ csv_files' = generate_cloze_csv_outcome(csv_files, io)[2]
    /\ csv_io' = generate_cloze_csv_outcome(csv_files, io)[3]
    /\ UNCHANGED <<copy_results, anki_media>>
    /\ ExportUnchanged

\* Variant: an empty cloze list is exported like any other.
ExportClozeCardsToAnkiEmptyToo(failing, io) ==
    /\ CanCallCloze
    /\ export_call' = "export_cloze_cards_to_anki"
    /\ IF incomplete_of(cloze_cards) # {} \/ MediaPathRaises(anki_media_path)
       THEN /\ export_result' = "False"
            /\ csv_io' = "none"
            /\ UNCHANGED <<copy_results, anki_media, csv_files>>
       ELSE LET staged == CopyLoop(cloze_cards, Len(cloze_cards), disk, anki_media,
                                   failing)
            IN  /\ copy_results' = staged.results
                /\ anki_media' = staged.media
                /\ export_result' = generate_cloze_csv_outcome(csv_files, io)[1]
                /\ csv_files' = generate_cloze_csv_outcome(csv_files, io)[2]
                /\ csv_io' = generate_cloze_csv_outcome(csv_files, io)[3]
    /\ ExportUnchanged

\* export_cloze_cards_to_anki
ExportClozeCardsToAnki(failing, io) ==
    /\ CanCallCloze
    /\ export_call' = "export_cloze_cards_to_anki"
    /\ IF cloze_cards = <<>>
       THEN /\ export_result' = "True"
            /\ csv_io' = "none"
            /\ UNCHANGED <<copy_results, anki_media, csv_files>>
       ELSE IF incomplete_of(cloze_cards) # {} \/ MediaPathRaises(anki_media_path)
            THEN /\ export_result' = "False"
                 /\ csv_io' = "none"
                 /\ UNCHANGED <<copy_results, anki_media, csv_files>>
            ELSE LET staged == CopyLoop(cloze_cards, Len(cloze_cards), disk, anki_media,
                                        failing)
                 IN  /\ copy_results' = staged.results
                     /\ anki_media' = staged.media
                     /\ export_result' = generate_cloze_csv_outcome(csv_files, io)[1]
                     /\ csv_files' = generate_cloze_csv_outcome(csv_files, io)[2]
                     /\ csv_io' = generate_cloze_csv_outcome(csv_files, io)[3]
    /\ ExportUnchanged

----------------------------------------------------------------------------
(* The export of a session that went through media generation and review *)

\* The number of vocabulary cards of an exported session
MaxExportCards == 2

\* The sessions exported, as <<vocabulary cards, cloze cards>>
ExportShapes ==
    {<<nv, 0>> : nv \in 0..MaxExportCards} \cup {<<nv, 1>> : nv \in {0, 1}}

\* How the review left a card: not approved ("none"), approved by the user
\* ("approved"), or marked complete by auto_approve ("auto", all cards or none)
ReviewStates(n) ==
    [1..n -> {"none", "approved"}] \cup {[k \in 1..n |-> "auto"]}

\* The audio outcomes told apart by the exporters, which look at the path
\* field and at whether the file exists
ExportAudioOutcomes == {"ok", "none"}

\* Card k as generate_media_for_session leaves it
MediaCard(k, nv, image_outcome, audio_outcome) ==
    MediaHandled(CreatedCard(k, nv),
                 MediaResults(CreatedCard(k, nv), image_outcome[k], audio_outcome[k]))

\* The card as an interactive review that ends with its approval leaves it:
\* a cloze card has its first example sentence selected, and a medium whose
\* file is missing has been regenerated.
ApprovedCard(card, d) ==
    LET chosen ==
            IF IsClozeCard(card)
            THEN WithSelectedSentence(card, select_sentences_for_cloze_card(card, {}, 1))
            ELSE card
        with_image ==
            IF "image" \in missing_media(card, d)
            THEN RegeneratedImageCard(chosen, get_media_path(card, ".jpg"))
            ELSE chosen
        with_audio ==
            IF "audio" \in missing_media(card, d)
            THEN RegeneratedAudioCard(with_image, get_media_path(card, ".mp3"))
            ELSE with_image
    IN  mark_complete(with_audio)

\* The output directory after that review of the card
ApprovedDisk(card, d) ==
    LET with_image ==
            IF "image" \in missing_media(card, d)
            THEN generate_image_disk(d, "ok", card.word, get_media_path(card, ".jpg"))
            ELSE d
    IN  IF "audio" \in missing_media(card, d)
        THEN generate_audio_disk(with_image, "ok", audio_text(ApprovedCard(card, d)),
                                 get_media_path(card, ".mp3"))
        ELSE with_image

ReviewedCard(card, d, review_state) ==
    CASE review_state = "approved" -> ApprovedCard(card, d)
      [] review_state = "auto" -> mark_complete(card)
      [] OTHER -> card

\* The output directory after the review of the first n cards
RECURSIVE DiskAfterReview(_, _, _, _, _)
DiskAfterReview(n, nv, image_outcome, audio_outcome, review_state) ==
    IF n = 0
    THEN DiskAfterMedia(Len(review_state), nv, image_outcome, audio_outcome)
    ELSE LET before == DiskAfterReview(n - 1, nv, image_outcome, audio_outcome, review_state)
         IN  IF review_state[n] = "approved"
             THEN ApprovedDisk(MediaCard(n, nv, image_outcome, audio_outcome), before)
             ELSE before

AfterReview(nv, nc, image_outcome, audio_outcome, review_state) ==
    LET after_media == DiskAfterMedia(nv + nc, nv, image_outcome, audio_outcome)
        reviewed(k) == ReviewedCard(MediaCard(k, nv, image_outcome, audio_outcome),
                                    after_media, review_state[k])
    IN  /\ phase = "export"
        /\ vocabulary_inputs = [k \in 1..nv |-> SessionInput(k, nv)]
        /\ cloze_inputs = [k \in 1..nc |-> SessionInput(nv + k, nv)]
        /\ uuid_next = nv + nc + 1
        /\ atask = [k \in 1..(nv + nc) |->
                      [pc |-> "done", result |-> WordAnalysis(SessionInput(k, nv).word, k > nv)]]
        /\ vocabulary_cards = [k \in 1..nv |-> reviewed(k)]
        /\ cloze_cards = [k \in 1..nc |-> reviewed(nv + k)]
        /\ mtask = [k \in 1..(nv + nc) |->
                      [pc |-> "done",
                       results |-> MediaResults(CreatedCard(k, nv), image_outcome[k],
                                                audio_outcome[k]),
                       issued |-> <<1, 1>>]]
        /\ disk = DiskAfterReview(nv + nc, nv, image_outcome, audio_outcome, review_state)
        /\ auto_approve = (nv + nc > 0 /\ review_state[1] = "auto")

InitExport ==
    /\ NoCalls
    /\ \E shape \in ExportShapes :
         \E image_outcome \in [1..(shape[1] + shape[2]) -> ImageOutcomes] :
           \E audio_outcome \in [1..(shape[1] + shape[2]) -> ExportAudioOutcomes] :
             \E review_state \in ReviewStates(shape[1] + shape[2]) :
               AfterReview(shape[1], shape[2], image_outcome, audio_outcome, review_state)
    /\ selected_card = 0
    /\ prompted = FALSE
    /\ action = "none"
    /\ result_path = NULL
    /\ success = "none"
    /\ requested = 0
    /\ anki_media_path \in {"unset", "missing", "exists"}
    /\ anki_media = <<>>
    /\ copy_results = <<>>
    /\ csv_files = <<>>
    /\ export_call = "none"
    /\ export_result = "none"
    /\ csv_io = "none"

NextExport ==
    \/ \E failing \in CopyFailures(vocabulary_cards, disk) : CopyMediaFiles(failing)
    \/ \E io \in CsvOutcomes : GenerateCsv(io)
    \/ \E failing \in CopyFailures(vocabulary_cards, disk), io \in CsvOutcomes :
          ExportToAnki(failing, io)
    \/ \E failing \in CopyFailures(cloze_cards, disk) : CopyClozeMediaFiles(failing)
    \/ \E io \in CsvOutcomes : GenerateClozeCsv(io)
    \/ \E failing \in CopyFailures(cloze_cards, disk), io \in CsvOutcomes :
          ExportClozeCardsToAnki(failing, io)

SpecExport == InitExport /\ [][NextExport]_vars

----------------------------------------------------------------------------
(* mnemonic_images.py, review.py: review_mnemonic_images *)

\* get_mnemonic_filename
get_mnemonic_filename(word) == <<"mpi-">> \o Replace(Lower(word), " ", "_") \o <<".jpg">>

\* check_mnemonic_exists; `media` are the file names of the Anki media
\* directory
check_mnemonic_exists(word, media) == get_mnemonic_filename(word) \in media

\* How the review of one generated image ends: the generation raises, the
\* user approves and the copy is made, the user approves and the copy
\* raises, or the user skips
ReviewEndings == {"generation_fails", "approved", "copy_fails", "skipped"}

\* What happens for one word that needs generation: the user asks for some
\* regenerations, then the review ends
MnemonicScripts ==
    {[regenerations |-> n, ending |-> e] : n \in 0..MaxRegenerations, e \in ReviewEndings}

\* review_mnemonic_images, first loop: the words kept with their existing
\* image
KeptExisting(word_inputs, media) ==
    {word_inputs[k].word : k \in
        {j \in DOMAIN word_inputs :
            /\ check_mnemonic_exists(word_inputs[j].word, media)
            /\ word_inputs[j].mnemonic_image_description = NULL}}

\* review_mnemonic_images, first loop: the word goes to
\* words_needing_generation
NeedsGeneration(word_input, media) == word_input.mnemonic_image_description # NULL

\* review_mnemonic_images, second loop from the k-th input on: the pair of
\* words_with_mnemonic and the file names of the media directory.  The
\* existence checks were all made before, against `checked`.
RECURSIVE ReviewLoop(_, _, _, _, _)
ReviewLoop(word_inputs, scripts, k, checked, state) ==
    IF k > Len(word_inputs) THEN state
    ELSE IF NeedsGeneration(word_inputs[k], checked) /\ scripts[k].ending = "approved"
         THEN ReviewLoop(word_inputs, scripts, k + 1, checked,
                         [words_with_mnemonic |->
                              state.words_with_mnemonic \cup {word_inputs[k].word},
                          media |->
                              state.media \cup {get_mnemonic_filename(word_inputs[k].word)}])
    ELSE ReviewLoop(word_inputs, scripts, k + 1, checked, state)

\* review_mnemonic_images
review_mnemonic_images(word_inputs, media, scripts) ==
    ReviewLoop(word_inputs, scripts, 1, media,
               [words_with_mnemonic |-> KeptExisting(word_inputs, media), media |-> media])

----------------------------------------------------------------------------
(* Functions applied on their own: the arguments are drawn when the run     *)
(* starts, one step applies the function and keeps what it returned.        *)

\* The cards the row functions are applied to: every combination of the
\* optional data of a card
RowAnalyses ==
    [ipa : {NULL, Str("ipa1")},
     part_of_speech : {Str("noun"), Str("verb"), Str("adjective"), <<"d", "e", " ", "H", "E">>},
     gender : {NULL, Str("masculine"), Str("neuter")},
     verb_type : {NULL, Str("transitive"), Str("auxiliary")},
     example_sentences : {<<>>}]

RowContexts == {NULL, Str("my context")}

\* The card with the two paths as media generation sets them
WithMedia(card, has_image, has_audio) ==
    [card EXCEPT !.image_path = IF has_image THEN get_media_path(card, ".jpg") ELSE NULL,
                 !.audio_path = IF has_audio THEN get_media_path(card, ".mp3") ELSE NULL]

VocabularyRowCards ==
    {WithMedia(WordCard([WordInput(WordList[1]) EXCEPT !.personal_context = context],
                        analysis, Guid(1)),
               has_image, has_audio) :
        analysis \in RowAnalyses, context \in RowContexts,
        has_image \in BOOLEAN, has_audio \in BOOLEAN}

\* The selections a cloze card may carry: none, or one of two examples
RowSelections ==
    {ExampleSentence(NULL, "", NULL, NULL, NULL),
     ExampleSentence(Str("s1"), "f1", Str("i1"), Str("presente"), Str("yo")),
     [ExampleSentence(<<"A", " ", "a", "b", ",", "a">>, "", NULL, NULL, NULL)
        EXCEPT !.word_form = <<"a">>]}

ClozeRowCards ==
    {[WithMedia(ClozeCard([ClozeCardInput(WordList[1]) EXCEPT
                                !.personal_context = context, !.definitions = definitions],
                          analysis, Guid(2)),
                has_media, has_media)
      EXCEPT !.selected_sentence = selection.sentence,
             !.selected_word_form = IF selection.sentence = NULL THEN NULL
                                    ELSE selection.word_form,
             !.selected_word_ipa = selection.ipa,
             !.selected_tense = selection.tense,
             !.selected_subject = selection.subject,
             !.show_base_verb = show] :
        analysis \in {a \in RowAnalyses : a.gender # Str("neuter")},
        context \in RowContexts, definitions \in {NULL, Str("definition")},
        has_media \in BOOLEAN, selection \in RowSelections, show \in BOOLEAN}

\* The sentences and word forms blank_word_in_sentence is applied to: a
\* word form is one word
SentenceAlphabet == {"a", "A", "b", " ", ","}

Sentences == UNION {[1..n -> SentenceAlphabet] : n \in 0..MaxSentenceLen}

WordForms == {<<"a">>, <<"A">>, <<"a", "b">>, <<"b", "a">>, <<"a", "a">>}

BlankCalls ==
    {<<"blank_word_in_sentence", sentence, target_word>> :
        sentence \in Sentences, target_word \in WordForms}

\* The cards that are duplicated, approved or not, and the sentences they
\* are duplicated with
DuplicateCalls ==
    {<<"create_duplicate_with_sentence", [card EXCEPT !.is_complete = approved],
       sentence, <<"a">>>> :
        card \in {c \in ClozeRowCards : c.show_base_verb /\ ipa(c) # NULL},
        approved \in BOOLEAN,
        sentence \in {<<"a", " ", "b">>, Str("s2")}}

AnalysisCalls == {<<"analyze_word", output_text>> : output_text \in Responses}

\* generate_audio for every list of voices, by how each conversion goes
AudioCalls ==
    {<<"generate_audio", voices, get_media_path(card, ".mp3")>> :
        voices \in UNION {[1..n -> VoiceOutcomes] : n \in 0..MaxVoices},
        card \in {c \in VocabularyRowCards : c.image_path = NULL /\ c.audio_path = NULL
                                              /\ c.personal_context = NULL
                                              /\ c.part_of_speech = Str("noun")
                                              /\ c.gender = NULL /\ c.verb_type = NULL
                                              /\ c.ipa = NULL}}

\* review_mnemonic_images for the words entered, with or without a
\* description, the image of the first word being there or not
MnemonicInputs ==
    UNION {[1..n -> [word : Words, mnemonic_image_description : {NULL, Str("sounds like")}]] :
              n \in 0..MaxMnemonicWords}

MnemonicCalls ==
    {<<"review_mnemonic_images", word_inputs, media, scripts>> :
        word_inputs \in {w \in MnemonicInputs : \A k \in DOMAIN w : w[k].word = ClozeWord(k)},
        media \in {{}, {get_mnemonic_filename(WordList[1])}},
        scripts \in UNION {[1..n -> MnemonicScripts] : n \in 0..MaxMnemonicWords}}

\* The calls of the row functions
RowCalls ==
    {<<"create_field_3_content", card>> : card \in VocabularyRowCards \cup ClozeRowCards}
    \cup {<<"create_csv_row", card, test_spelling>> :
            card \in VocabularyRowCards, test_spelling \in BOOLEAN}
    \cup {<<"create_cloze_csv_row", card>> : card \in ClozeRowCards}

\* A function is applied once, to the arguments drawn
Applies(function) == call = "none" /\ args # <<>> /\ args[1] = function

Returns(function, value) ==
    /\ call' = function
    /\ ret' = value
    /\ UNCHANGED <<args, phase, createVars, sessionVars, mtask, disk, reviewVars, exportVars>>

CreateField3Content ==
    /\ Applies("create_field_3_content")
    /\ Returns("create_field_3_content", create_field_3_content(args[2]))

CreateCsvRow ==
    /\ Applies("create_csv_row")
    /\ Returns("create_csv_row", create_csv_row(args[2], args[3]))

CreateClozeCsvRow ==
    /\ Applies("create_cloze_csv_row")
    /\ Returns("create_cloze_csv_row", create_cloze_csv_row(args[2]))

\* The GUID of the card that is duplicated was handed out before
CreateDuplicateWithSentence ==
    /\ Applies("create_duplicate_with_sentence")
    /\ call' = "create_duplicate_with_sentence"
    /\ ret' = create_duplicate_with_sentence(args[2], args[3], args[4], Guid(uuid_next))
    /\ uuid_next' = uuid_next + 1
    /\ UNCHANGED <<args, phase, vocabulary_inputs, cloze_inputs, atask, sessionVars, mtask,
                   disk, reviewVars, exportVars>>

AnalyzeWord ==
    /\ Applies("analyze_word")
    /\ Returns("analyze_word", analyze_word(args[2]))

GenerateAudio ==
    /\ Applies("generate_audio")
    /\ Returns("generate_audio", generate_audio(args[2], args[3]))

ReviewMnemonicImages ==
    /\ Applies("review_mnemonic_images")
    /\ Len(args[4]) = Len(args[2])
    /\ Returns("review_mnemonic_images", review_mnemonic_images(args[2], args[3], args[4]))

BlankWordInSentence ==
    /\ Applies("blank_word_in_sentence")
    /\ Returns("blank_word_in_sentence", blank_word_in_sentence(args[2], args[3]))

\* No session, no review, no export
NoSession ==
    /\ phase = "start"
    /\ vocabulary_inputs = <<>>
    /\ cloze_inputs = <<>>
    /\ atask = <<>>
    /\ vocabulary_cards = <<>>
    /\ cloze_cards = <<>>
    /\ mtask = <<>>
    /\ disk = <<>>

InitCalls ==
    /\ NoSession
    /\ NoReview
    /\ NoExport
    /\ call = "none"
    /\ ret = <<>>
    /\ args \in RowCalls \cup BlankCalls \cup DuplicateCalls \cup AnalysisCalls
                \cup AudioCalls
                \cup {c \in MnemonicCalls : Len(c[4]) = Len(c[2])}
    /\ uuid_next = 3

NextCalls ==
    \/ CreateField3Content
    \/ CreateCsvRow
    \/ CreateClozeCsvRow
    \/ BlankWordInSentence
    \/ CreateDuplicateWithSentence
    \/ AnalyzeWord
    \/ GenerateAudio
    \/ ReviewMnemonicImages

SpecCalls == InitCalls /\ [][NextCalls]_vars

----------------------------------------------------------------------------
(* Row functions: claims *)

Returned(function) == call = function

WholeWordAt(sentence, word, p) ==
    /\ p + Len(word) - 1 <= Len(sentence)
    /\ \A k \in 1..Len(word) : Lower(sentence)[p + k - 1] = Lower(word)[k]
    /\ p = 1 \/ sentence[p - 1] \notin WordChars
    /\ p + Len(word) - 1 = Len(sentence) \/ sentence[p + Len(word)] \notin WordChars

Occurrences(sentence, word) ==
    {p \in 1..Len(sentence) : WholeWordAt(sentence, word, p)}

\* `blanked` is the sentence with six underscores in the place of every
\* occurrence and every other character as it was
IsBlanked(sentence, word, blanked) ==
    LET occurrences == Occurrences(sentence, word)
        grown == 6 - Len(word)
        at(p) == p + grown * Cardinality({q \in occurrences : q < p})
    IN  /\ Len(blanked) = Len(sentence) + grown * Cardinality(occurrences)
        /\ \A q \in occurrences : \A k \in 0..5 : blanked[at(q) + k] = "_"
        /\ \A p \in 1..Len(sentence) :
              (\A q \in occurrences : p < q \/ p >= q + Len(word)) =>
                  blanked[at(p)] = sentence[p]

\* C24: blank_word_in_sentence replaces every whole-word, case-insensitive
\* occurrence of the selected word form in the sentence with exactly six
\* underscores and leaves every other character unchanged, including
\* punctuation and longer words that merely contain the word form; the first
\* field of the cloze row is this blanked sentence while its fifth field is
\* the unmodified sentence.
C24_Blanking ==
    /\ Returned("blank_word_in_sentence") => IsBlanked(args[2], args[3], ret)
    /\ Returned("create_cloze_csv_row") =>
          /\ ret[5] = args[2].selected_sentence
          /\ (args[2].selected_sentence # NULL /\ args[2].selected_word_form # NULL) =>
                IsBlanked(args[2].selected_sentence, args[2].selected_word_form, ret[1])

\* "A,ab" blanked for "a": the capital is replaced, the comma and the longer
\* word stay
C24_Witness ==
    /\ Returned("blank_word_in_sentence")
    /\ args[2] = <<"A", ",", "a", "b">>
    /\ args[3] = <<"a">>
    /\ ret = BLANK \o <<",", "a", "b">>

\* The text of a table for a key, the fallback when the table lacks the key
Translated(table, key, fallback) == IF key \in DOMAIN table THEN table[key] ELSE fallback

\* C25: vocabulary field 3 is the Spanish part of speech, followed by
\* " <Spanish gender>" only when the card is a noun with a gender, or by
\* " <Spanish verb type>" only when it is a verb with a verb type (neither
\* for other parts of speech), then ". <personal context>" when a personal
\* context exists, terminated by a period; a part of speech, gender or verb
\* type missing from the translation table falls back to the English value
\* (title-cased part of speech, verbatim gender and verb type).
C25_Field3 ==
    Returned("create_field_3_content") =>
        LET card == args[2]
            pos == part_of_speech(card)
            head == Translated(SPANISH_PARTS_OF_SPEECH, pos, Title(pos))
            qualifier ==
                CASE pos = Str("noun") /\ gender(card) # NULL ->
                        <<" ">> \o Translated(SPANISH_GENDER, gender(card), gender(card))
                  [] pos = Str("verb") /\ verb_type(card) # NULL ->
                        <<" ">> \o Translated(SPANISH_VERB_TYPES, verb_type(card),
                                              verb_type(card))
                  [] OTHER -> <<>>
            context ==
                IF card.personal_context # NULL THEN <<". ">> \o card.personal_context
                ELSE <<>>
        IN  /\ ret = head \o qualifier \o context \o <<".">>
            /\ ret[Len(ret)] = "."
            /\ pos \notin {Str("noun"), Str("verb")} => ret = head \o context \o <<".">>

\* A part of speech the table lacks, on a card that has a gender, a verb
\* type and a personal context
C25_Witness ==
    /\ Returned("create_field_3_content")
    /\ part_of_speech(args[2]) = <<"d", "e", " ", "H", "E">>
    /\ gender(args[2]) # NULL
    /\ verb_type(args[2]) # NULL
    /\ ret = <<"D", "e", " ", "H", "e", ". ", "my context", ".">>

\* C26, step: the duplicate has the base data of the original, the given
\* sentence and word form, another GUID, no media and is not complete; the
\* original is as it was.
C26_DuplicateStep ==
    (Applies("create_duplicate_with_sentence") /\ call' = "create_duplicate_with_sentence") =>
        LET original == args[2]
            duplicate == ret'
        IN  /\ IsClozeCard(duplicate)
            /\ duplicate.word = original.word
            /\ duplicate.word_analysis = original.word_analysis
            /\ duplicate.personal_context = original.personal_context
            /\ duplicate.extra_prompt = original.extra_prompt
            /\ duplicate.memory_aid = original.memory_aid
            /\ duplicate.selected_sentence = args[3]
            /\ duplicate.selected_word_form = args[4]
            /\ duplicate.guid # original.guid
            /\ duplicate.image_path = NULL
            /\ duplicate.audio_path = NULL
            /\ ~duplicate.is_complete
            /\ args' = args

\* C26: create_duplicate_with_sentence(sentence, word_form) returns a new
\* cloze card with the same word, word analysis, personal context, extra
\* prompt and memory aid as the original, the given sentence and word form,
\* a GUID different from the original's, null image_path and audio_path and
\* is_complete false; the original card (its GUID, media paths, selection
\* and completion) is left unchanged.
C26_DuplicateIsFresh == [][C26_DuplicateStep]_vars

\* The duplicate of an approved card that has its media and a selection
C26_Witness ==
    /\ Returned("create_duplicate_with_sentence")
    /\ args[2].is_complete
    /\ args[2].image_path # NULL
    /\ args[2].audio_path # NULL
    /\ args[2].selected_sentence \notin {NULL, args[3]}
    /\ args[2].memory_aid # NULL
    /\ ret.selected_sentence = args[3]
    /\ ret.image_path = NULL

\* The response has the two required keys
HasRequiredKeys(output_text) ==
    /\ output_text.kind = "object"
    /\ {"ipa", "part_of_speech"} \subseteq DOMAIN output_text.value

\* C27: analyze_word raises a ValueError whenever the response text is not
\* valid JSON or lacks a required key (ipa or part_of_speech); it never
\* returns a partial analysis and never swallows the error, while absent
\* gender, verb_type or example_sentences default to null and the empty
\* list.
C27_FormatError ==
    Returned("analyze_word") =>
        IF HasRequiredKeys(args[2])
        THEN /\ ret[1] = "return"
             /\ DOMAIN ret[2] = ResponseKeys
             /\ ret[2].ipa = args[2].value["ipa"]
             /\ ret[2].part_of_speech = args[2].value["part_of_speech"]
             /\ "gender" \notin DOMAIN args[2].value => ret[2].gender = NULL
             /\ "verb_type" \notin DOMAIN args[2].value => ret[2].verb_type = NULL
             /\ "example_sentences" \notin DOMAIN args[2].value =>
                    ret[2].example_sentences = <<>>
        ELSE ret = <<"raise", "ValueError">>

\* The errors that say the voice needs a higher tier
TierErrors == {"free_users_not_allowed", "Creator Tier"}

\* C28: generate_audio never raises: it tries the candidate voices one at a
\* time, each at most once; a tier or authorization error moves on to the
\* next voice, any other error ends the attempts; it returns the destination
\* path if and only if some voice's conversion completed, and None when no
\* voice is available, every voice is tier-blocked, or a non-tier error
\* occurs.
C28_AudioNeverRaises ==
    Returned("generate_audio") =>
        LET voices == args[2]
            tried == ret.tried
            last == tried[Len(tried)]
        IN  /\ ret.raised = "none"
            /\ ret.result \in {args[3], NULL}
            \* one at a time, in order, each at most once
            /\ tried = [n \in 1..Len(tried) |-> n]
            /\ Len(tried) <= Len(voices)
            \* a tier error moves on, anything else ends the attempts
            /\ \A n \in 1..Len(tried) :
                  n < Len(tried) <=> voices[n] \in TierErrors /\ n < Len(voices)
            /\ ret.result = args[3] <=> (tried # <<>> /\ voices[last] = "ok")
            /\ voices = <<>> => ret.result = NULL
            /\ (\A n \in DOMAIN voices : voices[n] \in TierErrors) => ret.result = NULL
            /\ (tried # <<>> /\ voices[last] = "other") => ret.result = NULL

\* Two voices are blocked by the tier, each in its way, and the third
\* converts
C28_Witness ==
    /\ Returned("generate_audio")
    /\ args[2] = <<"Creator Tier", "free_users_not_allowed", "ok">>
    /\ ret.tried = <<1, 2, 3>>
    /\ ret.result = args[3]

\* C29: the set returned by review_mnemonic_images contains a word if and
\* only if a mnemonic image file for that word (mpi-<normalized word>.jpg)
\* exists in the Anki media directory when the function returns: the words
\* whose image already existed and the words whose newly generated image was
\* approved and copied.
C29_MnemonicSetMatchesFiles ==
    Returned("review_mnemonic_images") =>
        \A k \in DOMAIN args[2] :
            args[2][k].word \in ret.words_with_mnemonic
                <=> get_mnemonic_filename(args[2][k].word) \in ret.media

----------------------------------------------------------------------------
(* Review: claims *)

\* The requirements of an approval as the claims state them: both paths set
\* and resolving to existing files and, for a cloze card, a sentence selected
ApprovalRequirements(card, d) ==
    /\ card.image_path # NULL /\ card.image_path \in DOMAIN d
    /\ card.audio_path # NULL /\ card.audio_path \in DOMAIN d
    /\ IsClozeCard(card) => card.selected_sentence # NULL

Interactive == auto_approve = FALSE /\ phase = "review"

\* C1, step: a card becomes complete only in an Approve step on that card
\* taken while the requirements hold; an Approve step taken without them
\* leaves the card incomplete and under review.
C1_ApproveStep ==
    Interactive =>
        /\ \A i \in CardIds :
              (~cards[i].is_complete /\ cards'[i].is_complete) =>
                  /\ action' = "approve"
                  /\ selected_card = i
                  /\ ApprovalRequirements(cards[i], disk)
        /\ (selected_card # 0 /\ action' = "approve"
                /\ ~ApprovalRequirements(cards[selected_card], disk)) =>
              /\ ~cards'[selected_card].is_complete
              /\ selected_card' = selected_card
              /\ phase' = "review"

C7_RegenerateStep ==
    (InCardLoop /\ action' \in {"regen_image", "regen_audio"}) =>
        LET i == selected_card
            field_changed(f) == cards'[i][f] # cards[i][f]
        IN  /\ phase' = "review" /\ selected_card' = i
            /\ success' \in {"True", "False"}
            /\ success' = "True" <=> (result_path' \notin {NULL, EXCEPTION})
            /\ \A j \in CardIds : j # i => cards'[j] = cards[j]
            /\ \A f \in DOMAIN cards[i] :
                  field_changed(f) =>
                      /\ success' = "True"
                      /\ f = (IF action' = "regen_image" THEN "image_path" ELSE "audio_path")
            /\ success' = "True" =>
                  /\ action' = "regen_image" =>
                        /\ cards'[i].image_path = result_path'
                        /\ cards'[i].image_path \in DOMAIN disk'
                        /\ disk'[cards'[i].image_path].whole
                  /\ action' = "regen_audio" =>
                        /\ cards'[i].audio_path = result_path'
                        /\ cards'[i].audio_path \in DOMAIN disk'
                        /\ disk'[cards'[i].audio_path].whole
            /\ success' = "False" => cards'[i] = cards[i]

\* C7: regenerate_image and regenerate_audio never raise; on success they set
\* the card's path field to the regenerated file's path and return True; when
\* the generation raises or produces no result they return False and leave
\* the existing path as it was; no other card field changes in either case.
C7_RegenerateContract == [][C7_RegenerateStep]_vars

\* C7 witness: a regeneration has just failed on a card that keeps the image
\* path it had, and on another occasion has succeeded for a card whose first
\* image request had failed.
C7_Witness ==
    /\ InCardLoop
    /\ action = "regen_image"
    /\ success = "False"
    /\ result_path = EXCEPTION
    /\ cards[selected_card].image_path # NULL
    /\ mtask[selected_card].results[1] = EXCEPTION
    /\ cards[selected_card].audio_path # NULL

\* C8, state: review_session has returned only with every card complete, and
\* the card under review is an incomplete card of the session.
C8_ReviewState ==
    /\ (phase = "reviewed" /\ ~auto_approve) => session_is_complete
    /\ InCardLoop =>
          /\ selected_card \in CardIds
          /\ ~cards[selected_card].is_complete

\* C8, step: a selection picks an incomplete card, without a prompt exactly
\* when one incomplete card is left.
C8_SelectStep ==
    (AtLoopHead /\ selected_card' # 0) =>
        /\ ~cards[selected_card'].is_complete
        /\ prompted' <=> (Cardinality({i \in CardIds : ~cards[i].is_complete}) > 1)
        /\ ~prompted' => \A i \in CardIds : ~cards[i].is_complete => i = selected_card'

\* C8: review_session with auto_approve false returns only when every card
\* is complete; while a card is incomplete it selects one of the incomplete
\* cards (without prompting when exactly one is left, by the user's choice
\* otherwise) and runs review_card on it; a complete card is never selected.
C8_ReviewUntilComplete == [](C8_ReviewState) /\ [][C8_SelectStep]_vars

\* C8 witness: the review has returned after a prompted selection among two
\* cards and an unprompted selection of the last one.
C8_Witness ==
    /\ phase = "reviewed"
    /\ ~auto_approve
    /\ Len(cards) >= 2
    /\ session_is_complete
    /\ ~prompted

\* C9, step: a complete card is the same card after every step of the review.
C9_CompleteStep ==
    phase \in {"review", "reviewed"} =>
        \A i \in CardIds : cards[i].is_complete => cards'[i] = cards[i]

\* C9: complete is terminal: once is_complete is true it never becomes false
\* again, and for the rest of the review no sentence change, regeneration,
\* toggle or approval is applied to that card, so its paths and selection
\* fields stay as they were at approval.
C9_CompleteIsTerminal == [][C9_CompleteStep]_vars

\* C9 witness: one card is complete while another one is under review and
\* has just had its image regenerated.
C9_Witness ==
    /\ InCardLoop
    /\ action = "regen_image"
    /\ success = "True"
    /\ \E i \in CardIds : i # selected_card /\ cards[i].is_complete

\* The path generate_media_for_session handed to the request of card i
OriginalTarget(i, extension) ==
    get_media_path(CreatedCard(i, Len(vocabulary_cards)), extension)

\* C11, state: a path field that is set holds the path the first generation
\* of that card used, a path the first generation returned is that path, and
\* every file of the output directory is at such a path.
C11_PathsAreOriginal ==
    LET session_cards == cards
        image_target == [i \in CardIds |-> OriginalTarget(i, ".jpg")]
        audio_target == [i \in CardIds |-> OriginalTarget(i, ".mp3")]
    IN  /\ \A i \in CardIds :
              /\ session_cards[i].image_path \in {NULL, image_target[i]}
              /\ session_cards[i].audio_path \in {NULL, audio_target[i]}
              /\ mtask[i].results[1] \in {EXCEPTION, image_target[i]}
              /\ mtask[i].results[2] \in {NULL, audio_target[i]}
        /\ \A path \in DOMAIN disk :
              \E i \in CardIds : path \in {image_target[i], audio_target[i]}

\* C11, step: a regeneration writes to no path but the one the first
\* generation of the card used, and a successful one leaves that path in the
\* card's field.
C11_RegenerateStep ==
    (InCardLoop /\ action' \in {"regen_image", "regen_audio"}) =>
        LET i == selected_card
            target == OriginalTarget(i, IF action' = "regen_image" THEN ".jpg" ELSE ".mp3")
        IN  /\ \A path \in DOMAIN disk' :
                  (path \notin DOMAIN disk \/ disk'[path] # disk[path]) => path = target
            /\ DOMAIN disk \subseteq DOMAIN disk'
            /\ success' = "True" =>
                  /\ result_path' = target
                  /\ target \in DOMAIN disk'
                  /\ action' = "regen_image" => cards'[i].image_path = target
                  /\ action' = "regen_audio" => cards'[i].audio_path = target

\* C11: for a fixed card and output directory every call of regenerate_image
\* and regenerate_audio targets exactly the path generate_media_for_session
\* used for that card, so after any number of successful regenerations the
\* path field equals the originally generated path: the file is overwritten,
\* never written under a new name.
C11_RegenerationOverwrites == [](C11_PathsAreOriginal) /\ [][C11_RegenerateStep]_vars

\* C11 witness: the image of a cloze card, first generated successfully, has
\* just been regenerated successfully after a sentence was selected and the
\* base verb toggled, and the field holds the path the first generation
\* returned.
C11_Witness ==
    /\ InCardLoop
    /\ action = "regen_image"
    /\ success = "True"
    /\ IsClozeCard(cards[selected_card])
    /\ cards[selected_card].selected_word_form # NULL
    /\ cards[selected_card].show_base_verb
    /\ mtask[selected_card].results[1] # EXCEPTION
    /\ cards[selected_card].image_path = mtask[selected_card].results[1]

\* C12 as stated, step: an Approve completes the card and ends its loop.
C12_AsStatedStep ==
    (InCardLoop /\ action' = "approve") =>
        /\ cards'[selected_card].is_complete
        /\ selected_card' = 0

C12_AmendedStep ==
    (InCardLoop /\ action' = "approve") =>
        LET i == selected_card
        IN  IF ApprovalRequirements(cards[i], disk)
            THEN /\ cards'[i] = [cards[i] EXCEPT !.is_complete = TRUE]
                 /\ selected_card' = 0
            ELSE /\ cards'[i] = cards[i]
                 /\ ~cards'[i].is_complete
                 /\ selected_card' = i

FirstSelected(card, checked, fallback) ==
    example_sentences(card)[IF checked = {} THEN fallback
                            ELSE CHOOSE x \in checked : \A y \in checked : x <= y]

\* The five selection fields of the card are those of the example
TakenFrom(card, sentence_data) ==
    /\ card.selected_sentence = sentence_data.sentence
    /\ card.selected_word_form = sentence_data.word_form
    /\ card.selected_word_ipa = sentence_data.ipa
    /\ card.selected_tense = sentence_data.tense
    /\ card.selected_subject = sentence_data.subject

\* The step is a sentence selection on card i with these answers: the one
\* of the session loop for a cloze card without a sentence, or "Change
\* selected sentence"
SelectionStep(i, checked, fallback) ==
    \/ /\ AtLoopHead
       /\ selected_card' = i
       /\ IsClozeCard(cards[i])
       /\ cards[i].selected_sentence = NULL
       /\ \E highlighted \in 1..Len(card_choices) : ReviewSelect(highlighted, checked, fallback)
    \/ /\ selected_card = i
       /\ action' = "change_sentence"
       /\ ReviewChangeSentence(checked, fallback)

\* C20 as stated, step: the fields are those of the first selected example
\* and the card has a selected sentence afterwards.
C20_AsStatedStep ==
    \A i \in {selected_card'} \cap CardIds : \A answer \in SentenceAnswers(cards[i]) :
        SelectionStep(i, answer[1], answer[2]) =>
            /\ TakenFrom(cards'[i], FirstSelected(cards[i], answer[1], answer[2]))
            /\ cards'[i].selected_sentence # NULL

\* C20 (as stated): after sentence selection in the review path, the
\* selection fields of a cloze card are all taken from one and the same
\* example sentence of the card, the first one the user selected, and a
\* selection step never leaves the card without a selected sentence.
C20_SelectionNeverEmpty == [][C20_AsStatedStep]_vars

\* C20 amended, step: the card has a selected sentence afterwards when the
\* text of the first selected example is not empty.
C20_AmendedStep ==
    \A i \in {selected_card'} \cap CardIds : \A answer \in SentenceAnswers(cards[i]) :
        SelectionStep(i, answer[1], answer[2]) =>
            LET sentence_data == FirstSelected(cards[i], answer[1], answer[2])
            IN  /\ TakenFrom(cards'[i], sentence_data)
                /\ cards'[i].selected_word_form # NULL
                /\ sentence_data.sentence # NULL => cards'[i].selected_sentence # NULL

\* C20 (amended): after sentence selection in the review path, the five
\* selection fields of a cloze card are all taken from one and the same
\* example sentence of the card, the first one the user selected (the one
\* picked in the forced single select when nothing was ticked); the card has
\* a selected sentence afterwards whenever the text of that example is not
\* empty.
C20_SelectionFromFirst == [][C20_AmendedStep]_vars

\* A cloze card whose sentence was changed to the second example
C20_Witness ==
    /\ InCardLoop
    /\ action = "change_sentence"
    /\ IsClozeCard(cards[selected_card])
    /\ cards[selected_card].selected_sentence = Str("s2")
    /\ cards[selected_card].selected_word_form = Str("f2")

\* The fields of a cloze card that a sentence selection writes
SelectionFields ==
    {"selected_sentence", "selected_word_form", "selected_word_ipa",
     "selected_tense", "selected_subject"}

\* Two cards that differ in their selection fields at most
SameButSelection(before, after) ==
    /\ DOMAIN after = DOMAIN before
    /\ \A field \in DOMAIN before \ SelectionFields : after[field] = before[field]

\* C21, step: "Change selected sentence" is taken on a cloze card, writes
\* its selection fields only, touches no file and stays in the card loop.
C21_ChangeStep ==
    (InCardLoop /\ action' = "change_sentence"
        /\ \E answer \in SentenceAnswers(cards[selected_card]) :
              ReviewChangeSentence(answer[1], answer[2]))
    => /\ IsClozeCard(cards[selected_card])
       /\ SameButSelection(cards[selected_card], cards'[selected_card])
       /\ cards'[selected_card].image_path = cards[selected_card].image_path
       /\ cards'[selected_card].audio_path = cards[selected_card].audio_path
       /\ cards'[selected_card].is_complete = cards[selected_card].is_complete
       /\ \A i \in CardIds \ {selected_card} : cards'[i] = cards[i]
       /\ Len(vocabulary_cards') = Len(vocabulary_cards)
       /\ disk' = disk
       /\ selected_card' = selected_card
       /\ phase' = "review"

\* C21: the "Change selected sentence" action of the single-card review
\* loop, offered for cloze cards only, changes nothing but the card's
\* selection fields: image_path, audio_path and is_complete are unchanged
\* and the card stays in the review loop.
C21_ChangeSentenceFrame == [][C21_ChangeStep]_vars

\* A cloze card with both media whose sentence was changed to the first
\* example
C21_Witness ==
    /\ InCardLoop
    /\ action = "change_sentence"
    /\ IsClozeCard(cards[selected_card])
    /\ cards[selected_card].selected_word_form = Str("f1")
    /\ cards[selected_card].image_path # NULL
    /\ cards[selected_card].audio_path # NULL

\* What the media generation left missing for card i: the image when its
\* request raised, the audio when no whole file was written
MissingAfterMedia(i) ==
    (IF mtask[i].results[1] = EXCEPTION THEN {"image"} ELSE {})
        \cup (IF mtask[i].results[2] = NULL THEN {"audio"} ELSE {})

RegenerateActionFor(medium) == IF medium = "image" THEN "regen_image" ELSE "regen_audio"

\* The card under review is offered the regeneration of each medium it misses
RegenerationsOffered ==
    InCardLoop =>
        \A medium \in missing_media(cards[selected_card], disk) :
            RegenerateActionFor(medium) \in Offered(cards[selected_card])

C32_AutoApproveStep ==
    /\ (phase = "media_done" /\ auto_approve) =>
          /\ phase' = "reviewed"
          /\ Len(cards') = Len(cards)
          /\ \A i \in CardIds : cards'[i] = [cards[i] EXCEPT !.is_complete = TRUE]
          /\ disk' = disk
          /\ ~prompted' /\ selected_card' = 0 /\ action' = "none"
    /\ (phase = "review" /\ action' # "approve") =>
          \A i \in CardIds : cards'[i].is_complete = cards[i].is_complete
    /\ (phase = "review" /\ action' = "approve") =>
          \A i \in CardIds : cards'[i].is_complete # cards[i].is_complete => i = selected_card

\* C32: with auto_approve true, review_session marks every card of the
\* session complete without any prompt and without checking media files or
\* sentence selection, changes no other card field, and returns with
\* session.is_complete true; with auto_approve false no card is ever
\* completed without a user Approve action.
C32_AutoApprove ==
    /\ []((auto_approve /\ phase = "reviewed") => (session_is_complete /\ ~prompted))
    /\ []((phase = "review") => ~auto_approve)
    /\ [][C32_AutoApproveStep]_vars

\* C32 witness: the automatic approval has completed a vocabulary card
\* without an image and a cloze card without a selected sentence.
C32_Witness ==
    /\ auto_approve
    /\ phase = "reviewed"
    /\ \E i, j \in CardIds :
          /\ ~IsClozeCard(cards[i]) /\ cards[i].image_path = NULL /\ cards[i].is_complete
          /\ IsClozeCard(cards[j]) /\ cards[j].selected_sentence = NULL /\ cards[j].is_complete

\* C33, step: a replay and a failed regeneration leave the cards as they
\* were and the card under review in its loop, incomplete; the loop of a
\* card is left only by an Approve that completed it.
C33_FrameStep ==
    InCardLoop =>
        /\ (action' = "replay"
              \/ (action' \in {"regen_image", "regen_audio"} /\ success' = "False")) =>
              /\ cards' = cards
              /\ selected_card' = selected_card
              /\ phase' = "review"
              /\ ~cards'[selected_card].is_complete
        /\ selected_card' # selected_card =>
              /\ action' = "approve"
              /\ cards'[selected_card].is_complete

\* C33: in the single-card review loop, "Replay audio" and a regeneration
\* that fails leave every field of the card unchanged (paths, selection,
\* is_complete) and the loop continues with the card still incomplete; only
\* Approve ends the loop.
C33_FailureLeavesCard == [][C33_FrameStep]_vars

\* C33 witness: the audio regeneration of a cloze card with a selected
\* sentence and both paths has just failed.
C33_Witness ==
    /\ InCardLoop
    /\ action = "regen_audio"
    /\ success = "False"
    /\ IsClozeCard(cards[selected_card])
    /\ cards[selected_card].selected_sentence # NULL
    /\ cards[selected_card].image_path # NULL
    /\ cards[selected_card].audio_path # NULL

----------------------------------------------------------------------------
(* Export: claims *)

\* A step in which the named entry point is called and returns
Called(entry_points) == export_call' # export_call /\ export_call' \in entry_points

AllComplete(card_list) == \A n \in DOMAIN card_list : card_list[n].is_complete

\* A whole CSV file of the exporter is at the path, one row per card
CsvAt(files, path, card_list) ==
    /\ path \in DOMAIN files
    /\ files[path].whole
    /\ Len(files[path].rows) = Len(card_list)

\* C2, step: a call of a vocabulary (cloze) export entry point on a session
\* with an incomplete vocabulary (cloze) card returns False and writes no file.
C2_IncompleteStep ==
    /\ (Called({"export_to_anki", "generate_csv"}) /\ ~AllComplete(vocabulary_cards)) =>
          /\ export_result' = "False"
          /\ csv_files' = csv_files
          /\ VOCABULARY_CSV \notin DOMAIN csv_files'
    /\ (Called({"export_cloze_cards_to_anki", "generate_cloze_csv"})
            /\ ~AllComplete(cloze_cards)) =>
          /\ export_result' = "False"
          /\ csv_files' = csv_files
          /\ CLOZE_CSV \notin DOMAIN csv_files'

\* C2: if any vocabulary card is incomplete, export_to_anki and generate_csv
\* return False and no vocabulary CSV file is written; if any cloze card is
\* incomplete, export_cloze_cards_to_anki and generate_cloze_csv return False
\* and no cloze CSV file is written (no partial CSV of the complete cards).
C2_IncompleteExportRefused == [][C2_IncompleteStep]_vars

\* C2 witness: export_to_anki has returned False for a session of one
\* complete and one incomplete vocabulary card, with the Anki media
\* directory in place and no file written.
C2_Witness ==
    /\ export_call = "export_to_anki"
    /\ export_result = "False"
    /\ anki_media_path = "exists"
    /\ \E n \in DOMAIN vocabulary_cards : vocabulary_cards[n].is_complete
    /\ \E n \in DOMAIN vocabulary_cards : ~vocabulary_cards[n].is_complete
    /\ csv_files = <<>>

\* C3 as stated, step: export_to_anki (export_cloze_cards_to_anki) called on
\* a session whose vocabulary (cloze) cards are all complete returns True and
\* leaves a CSV file at the export path.
C3_AsStatedStep ==
    /\ (Called({"export_to_anki"}) /\ AllComplete(vocabulary_cards)) =>
          /\ export_result' = "True"
          /\ CsvAt(csv_files', VOCABULARY_CSV, vocabulary_cards)
    /\ (Called({"export_cloze_cards_to_anki"}) /\ AllComplete(cloze_cards)) =>
          /\ export_result' = "True"
          /\ CsvAt(csv_files', CLOZE_CSV, cloze_cards)

C3_AmendedStep ==
    /\ (Called({"export_to_anki"}) /\ AllComplete(vocabulary_cards)
            /\ anki_media_path = "exists" /\ csv_io' = "ok") =>
          /\ export_result' = "True"
          /\ CsvAt(csv_files', VOCABULARY_CSV, vocabulary_cards)
    /\ (Called({"export_cloze_cards_to_anki"}) /\ AllComplete(cloze_cards)
            /\ cloze_cards # <<>> /\ anki_media_path = "exists" /\ csv_io' = "ok") =>
          /\ export_result' = "True"
          /\ CsvAt(csv_files', CLOZE_CSV, cloze_cards)
    /\ (Called({"export_to_anki"}) /\ AllComplete(vocabulary_cards)
            /\ anki_media_path = "exists") => csv_io' # "none"
    /\ (Called({"export_cloze_cards_to_anki"}) /\ AllComplete(cloze_cards)
            /\ cloze_cards # <<>> /\ anki_media_path = "exists") => csv_io' # "none"

ClaimedFilename(card, extension) ==
    Replace(Lower(card.word), " ", "_") \o <<"-">> \o SubSeq(card.guid, 1, 8) \o <<extension>>

ClaimedNames == {ClaimedFilename(cards[i], extension) : i \in CardIds, extension \in {".jpg", ".mp3"}}

\* The rows of a CSV file carry the claimed names in their tags
TagsNamed(files, path, card_list, picture_field, sound_field) ==
    (path \in DOMAIN files /\ files[path].whole) =>
        \A n \in DOMAIN files[path].rows :
            LET row == files[path].rows[n]
                card == card_list[n]
            IN  /\ row[picture_field] # NULL =>
                      row[picture_field] = ImgTag(ClaimedFilename(card, ".jpg"))
                /\ \A m \in DOMAIN row[sound_field] :
                      row[sound_field][m][1] = "[sound:" =>
                          row[sound_field][m] = SoundTag(ClaimedFilename(card, ".mp3"))

\* C10: for every card one and the same file name, <word in lower case with
\* spaces replaced by underscores>-<first 8 characters of the GUID>.<ext>, is
\* the name of the path its media are generated and regenerated at, the name
\* of the copy in the Anki media directory, and the name inside the <img> and
\* [sound:] tags of the exported rows.
C10_OneFilename ==
    /\ \A i \in CardIds :
          /\ cards[i].image_path # NULL =>
                cards[i].image_path = <<OUTPUT_DIRECTORY, ClaimedFilename(cards[i], ".jpg")>>
          /\ cards[i].audio_path # NULL =>
                cards[i].audio_path = <<OUTPUT_DIRECTORY, ClaimedFilename(cards[i], ".mp3")>>
    /\ \A path \in DOMAIN disk : path[1] = OUTPUT_DIRECTORY /\ path[2] \in ClaimedNames
    /\ \A filename \in DOMAIN anki_media :
          /\ filename \in ClaimedNames
          /\ <<OUTPUT_DIRECTORY, filename>> \in DOMAIN disk
          /\ anki_media[filename] = disk[<<OUTPUT_DIRECTORY, filename>>]
    /\ TagsNamed(csv_files, VOCABULARY_CSV, vocabulary_cards, 2, 4)
    /\ TagsNamed(csv_files, CLOZE_CSV, cloze_cards, 2, 6)

\* C10 witness: after export_to_anki a card whose word has an upper-case
\* letter and a space, and whose image was regenerated in the review, has its
\* two files in the Anki media directory and both tags in its row.
C10_Witness ==
    /\ export_call = "export_to_anki"
    /\ export_result = "True"
    /\ \E n \in DOMAIN vocabulary_cards :
          LET card == vocabulary_cards[n]
          IN  /\ card.word = WordList[1]
              /\ mtask[n].results[1] = EXCEPTION
              /\ ClaimedFilename(card, ".jpg") \in DOMAIN anki_media
              /\ ClaimedFilename(card, ".mp3") \in DOMAIN anki_media
              /\ csv_files[VOCABULARY_CSV].rows[n][2] = ImgTag(ClaimedFilename(card, ".jpg"))
              /\ csv_files[VOCABULARY_CSV].rows[n][4][1] = SoundTag(ClaimedFilename(card, ".mp3"))

\* C15, step: export_cloze_cards_to_anki on a session without cloze cards
\* returns True, writes no file and copies nothing.
C15_EmptyStep ==
    (Called({"export_cloze_cards_to_anki"}) /\ cloze_cards = <<>>) =>
        /\ export_result' = "True"
        /\ csv_files' = csv_files
        /\ CLOZE_CSV \notin DOMAIN csv_files'
        /\ anki_media' = anki_media
        /\ copy_results' = copy_results
        /\ csv_io' = "none"

\* C15: exporting a session with no cloze cards through
\* export_cloze_cards_to_anki returns True, writes no CSV file and copies no
\* media, even when no Anki media directory is configured or exists.
C15_EmptyClozeExport == [][C15_EmptyStep]_vars

\* C15 witness: the cloze exporter has returned True for a session of two
\* complete vocabulary cards and no cloze card, with no Anki media directory
\* configured and nothing written or copied.
C15_Witness ==
    /\ export_call = "export_cloze_cards_to_anki"
    /\ export_result = "True"
    /\ cloze_cards = <<>>
    /\ Len(vocabulary_cards) = 2
    /\ AllComplete(vocabulary_cards)
    /\ anki_media_path = "unset"
    /\ csv_files = <<>>
    /\ anki_media = <<>>

\* C16, step: a staging called without an existing Anki media directory
\* raises and has copied nothing and recorded nothing; with the directory in
\* place it returns its result map.
C16_StagingStep ==
    Called({"copy_media_files", "copy_cloze_media_files"}) =>
        IF anki_media_path \in {"unset", "missing"}
        THEN /\ export_result' = "raised"
             /\ anki_media' = anki_media
             /\ copy_results' = copy_results
             /\ copy_results' = <<>>
        ELSE export_result' = "returned"

\* C16: copy_media_files and copy_cloze_media_files raise an error when the
\* configured Anki media directory is unset or does not exist, and they do so
\* before any file is copied and before any result-map entry is recorded.
C16_StagingFailsFast == [][C16_StagingStep]_vars

\* C16 witness: copy_media_files has raised for a directory that is
\* configured and does not exist, on a session with a complete card whose
\* two files are there to be copied.
C16_Witness ==
    /\ export_call = "copy_media_files"
    /\ export_result = "raised"
    /\ anki_media_path = "missing"
    /\ Cardinality(CopyTargets(vocabulary_cards, disk)) >= 2
    /\ anki_media = <<>>
    /\ copy_results = <<>>

\* The export entry point called in this step goes on to the staging: its
\* cards are all complete and, for the cloze exporter, there is one
ReachesStaging ==
    \/ Called({"export_to_anki"}) /\ AllComplete(vocabulary_cards)
    \/ Called({"export_cloze_cards_to_anki"}) /\ AllComplete(cloze_cards)
          /\ cloze_cards # <<>>

\* C17, step: the two export entry points return True or False; without an
\* existing Anki media directory they return False and no CSV file has been
\* opened; with a failed CSV write they return False.
C17_ExportStep ==
    /\ Called({"export_to_anki", "export_cloze_cards_to_anki"}) =>
          export_result' \in {"True", "False"}
    /\ (ReachesStaging /\ anki_media_path \in {"unset", "missing"}) =>
          /\ export_result' = "False"
          /\ csv_io' = "none"
          /\ csv_files' = csv_files
          /\ anki_media' = anki_media
    /\ (ReachesStaging /\ csv_io' \in {"open_fails", "write_fails"}) =>
          export_result' = "False"
    /\ (Called({"export_to_anki"}) /\ anki_media_path \in {"unset", "missing"}) =>
          VOCABULARY_CSV \notin DOMAIN csv_files'
    /\ (Called({"export_cloze_cards_to_anki"}) /\ anki_media_path \in {"unset", "missing"}) =>
          CLOZE_CSV \notin DOMAIN csv_files'

\* C17: export_to_anki and export_cloze_cards_to_anki never raise: a missing
\* or nonexistent Anki media directory, or an I/O failure while the CSV file
\* is written, becomes a False return; as the staging runs before the CSV
\* generation, no CSV file is written when the directory check fails.
C17_ExportNeverRaises == [][C17_ExportStep]_vars

\* C17 witness: export_to_anki has returned False for a session of complete
\* vocabulary cards because the configured directory does not exist, and no
\* CSV file was written.
C17_Witness ==
    /\ export_call = "export_to_anki"
    /\ export_result = "False"
    /\ vocabulary_cards # <<>>
    /\ AllComplete(vocabulary_cards)
    /\ anki_media_path = "missing"
    /\ csv_io = "none"
    /\ csv_files = <<>>

\* The names the complete cards of a list have in the Anki media directory
StagedNamesOf(card_list) ==
    {ClaimedFilename(card_list[n], extension) :
        n \in {m \in DOMAIN card_list : card_list[m].is_complete},
        extension \in {".jpg", ".mp3"}}

\* The result-map keys of the complete cards of a list
ResultKeysOf(card_list) ==
    {<<card_list[n].word, suffix>> :
        n \in {m \in DOMAIN card_list : card_list[m].is_complete},
        suffix \in {"_image", "_audio"}}

\* What a step of one exporter may touch: files of the complete cards of its
\* own list in the media directory, keys of these cards in the result map,
\* and its own CSV file, whose rows are those of its own cards.
OwnEffects(card_list, own_csv, other_csv, exporter) ==
    /\ \A filename \in DOMAIN anki_media' :
          (filename \notin DOMAIN anki_media \/ anki_media'[filename] # anki_media[filename])
              => filename \in StagedNamesOf(card_list)
    /\ DOMAIN anki_media \subseteq DOMAIN anki_media'
    /\ copy_results' # copy_results => DOMAIN copy_results' \subseteq ResultKeysOf(card_list)
    /\ other_csv \in DOMAIN csv_files' =>
          (other_csv \in DOMAIN csv_files /\ csv_files'[other_csv] = csv_files[other_csv])
    /\ (own_csv \in DOMAIN csv_files' /\ csv_files'[own_csv].whole) =>
          /\ Len(csv_files'[own_csv].rows) = Len(card_list)
          /\ \A n \in DOMAIN card_list :
                csv_files'[own_csv].rows[n] =
                    (IF exporter = "vocabulary" THEN create_csv_row(card_list[n], FALSE)
                     ELSE create_cloze_csv_row(card_list[n]))

\* C18, step: each exporter's effects are confined to its own cards, and a
\* False return comes from its own cards, the media directory or the write.
C18_IsolationStep ==
    /\ Called({"copy_media_files", "generate_csv", "export_to_anki"}) =>
          /\ OwnEffects(vocabulary_cards, VOCABULARY_CSV, CLOZE_CSV, "vocabulary")
          /\ export_result' = "False" =>
                \/ ~AllComplete(vocabulary_cards)
                \/ export_call' = "export_to_anki" /\ anki_media_path # "exists"
                \/ csv_io' \in {"open_fails", "write_fails"}
    /\ Called({"copy_cloze_media_files", "generate_cloze_csv",
               "export_cloze_cards_to_anki"}) =>
          /\ OwnEffects(cloze_cards, CLOZE_CSV, VOCABULARY_CSV, "cloze")
          /\ export_result' = "False" =>
                \/ ~AllComplete(cloze_cards)
                \/ export_call' = "export_cloze_cards_to_anki" /\ anki_media_path # "exists"
                \/ csv_io' \in {"open_fails", "write_fails"}

\* C18: the two exporters are isolated by card type: the vocabulary exporter
\* reads only the session's vocabulary cards and the cloze exporter only its
\* cloze cards, so cards of the other type contribute no CSV row, no copied
\* file and no result-map entry, and whether they are complete does not
\* change the outcome; the media copy skips incomplete cards of its own type.
C18_ExportersIsolated == [][C18_IsolationStep]_vars

\* C18 witness: export_to_anki has returned True for a session of a complete
\* vocabulary card and an incomplete cloze card whose files are on disk; the
\* media directory holds the two files of the vocabulary card and nothing
\* else, and the CSV file has one row.
C18_Witness ==
    /\ export_call = "export_to_anki"
    /\ export_result = "True"
    /\ Len(vocabulary_cards) = 1
    /\ Len(cloze_cards) = 1
    /\ ~cloze_cards[1].is_complete
    /\ cloze_cards[1].image_path # NULL
    /\ Exists(disk, cloze_cards[1].image_path)
    /\ DOMAIN anki_media = StagedNamesOf(vocabulary_cards)
    /\ Len(csv_files[VOCABULARY_CSV].rows) = 1

\* The staging of the exporter ran in this step
StagingRan(card_list, copy_entry, export_entry) ==
    \/ Called({copy_entry}) /\ export_result' = "returned"
    \/ Called({export_entry}) /\ AllComplete(card_list) /\ card_list # <<>>
          /\ anki_media_path = "exists"

\* Every file of a complete card that was there to be copied and is not in
\* the media directory has False under its key in the result map
FailuresRecorded(card_list) ==
    \A n \in DOMAIN card_list :
        LET card == card_list[n]
            lost(path, filename) ==
                /\ card.is_complete
                /\ path # NULL
                /\ Exists(disk, path)
                /\ filename \notin DOMAIN anki_media'
            recorded(key) == key \in DOMAIN copy_results' /\ copy_results'[key] = FALSE
        IN  /\ lost(card.image_path, ClaimedFilename(card, ".jpg")) =>
                  recorded(<<card.word, "_image">>)
            /\ lost(card.audio_path, ClaimedFilename(card, ".mp3")) =>
                  recorded(<<card.word, "_audio">>)

\* C19, step: a copy that failed is recorded, and the export goes on to a
\* written CSV file and True.
C19_CopyFailureStep ==
    /\ StagingRan(vocabulary_cards, "copy_media_files", "export_to_anki") =>
          FailuresRecorded(vocabulary_cards)
    /\ StagingRan(cloze_cards, "copy_cloze_media_files", "export_cloze_cards_to_anki") =>
          FailuresRecorded(cloze_cards)
    /\ (Called({"export_to_anki"}) /\ AllComplete(vocabulary_cards)
            /\ anki_media_path = "exists" /\ csv_io' = "ok"
            /\ \E key \in DOMAIN copy_results' : ~copy_results'[key]) =>
          (export_result' = "True" /\ CsvAt(csv_files', VOCABULARY_CSV, vocabulary_cards))

\* C19: a per-file copy failure during media staging does not fail the
\* export: the failure is recorded as False under that file's key in the
\* result map, the remaining files are still attempted, and the export still
\* writes the CSV file and returns True.
C19_CopyFailureRecorded == [][C19_CopyFailureStep]_vars

\* The names the header line of the cloze CSV file is said to list
ClaimedClozeFields ==
    <<Str("Front (Example with word blanked out or missing)"),
      Str("Front (Picture)"),
      Str("Front (Definitions, base word, etc.)"),
      Str("Back (a single word/phrase, no context)"),
      Str("- The full sentence (no words blanked out)"),
      Str("- Extra Info (Pronunciation, personal connections, conjugations, etc)"),
      NULL, NULL, NULL, Str("Mnemonic Priming Image")>>

\* C23: the "#fields:" header line of the cloze CSV file lists ten
\* tab-separated field names in order (the six named fields, three empty
\* names, then "Mnemonic Priming Image"), one name per column of the
\* 10-column data rows that follow it.
C23_ClozeHeaderNamesColumns ==
    (CLOZE_CSV \in DOMAIN csv_files /\ csv_files[CLOZE_CSV].whole) =>
        /\ csv_files[CLOZE_CSV].fields = ClaimedClozeFields
        /\ \A n \in DOMAIN csv_files[CLOZE_CSV].rows :
              Len(csv_files[CLOZE_CSV].rows[n]) = Len(csv_files[CLOZE_CSV].fields)

----------------------------------------------------------------------------
(* create_session: claims *)

AnalysisFailed == \E k \in DOMAIN atask : atask[k].pc = "failed"

\* C13, state: once an analysis has raised, create_session has raised, and
\* the session holds no card.
C13_NoSessionAfterFailure ==
    /\ AnalysisFailed => phase = "create_raised"
    /\ phase = "create_raised" =>
          /\ AnalysisFailed
          /\ vocabulary_cards = <<>>
          /\ cloze_cards = <<>>
          /\ mtask = <<>>

\* C13, step: create_session that has raised returns no session later on.
C13_RaisedStep ==
    phase = "create_raised" => (phase' = "create_raised" /\ UNCHANGED sessionVars)

\* C13: create_session is all-or-nothing: if the analysis of any one input
\* word raises, create_session raises and no session is returned, so no card
\* of the batch becomes available, the cards of the words whose analysis
\* succeeded included.
C13_AllOrNothing == [](C13_NoSessionAfterFailure) /\ [][C13_RaisedStep]_vars

\* C13 witness: of three words, the analysis of one has succeeded, that of
\* another has raised, and there is no card.
C13_Witness ==
    /\ phase = "create_raised"
    /\ Len(atask) >= 3
    /\ \E k \in DOMAIN atask : atask[k].pc = "done"
    /\ \E k \in DOMAIN atask : atask[k].pc = "failed"
    /\ \A k \in DOMAIN atask : atask[k].pc \in {"done", "failed"}
    /\ cards = <<>>

SessionBuilt == phase \notin {"start", "create", "create_raised"}

\* C14, state: the cards of the session are those of the inputs, in input
\* order, each with the analysis of its own word, and as create_session
\* returns them they are incomplete, without media and without a sentence.
C14_CardsFollowInputs ==
    SessionBuilt =>
        /\ Len(vocabulary_cards) = Len(vocabulary_inputs)
        /\ Len(cloze_cards) = Len(cloze_inputs)
        /\ \A k \in DOMAIN vocabulary_cards :
              LET card == vocabulary_cards[k]
                  own == WordAnalysis(vocabulary_inputs[k].word, FALSE)
              IN  /\ card.card_type = "vocabulary"
                  /\ card.word = vocabulary_inputs[k].word
                  /\ card.ipa = own.ipa
                  /\ card.part_of_speech = own.part_of_speech
                  /\ card.gender = own.gender
                  /\ card.verb_type = own.verb_type
        /\ \A k \in DOMAIN cloze_cards :
              LET card == cloze_cards[k]
              IN  /\ card.card_type = "cloze"
                  /\ card.word = cloze_inputs[k].word
                  /\ card.word_analysis = WordAnalysis(cloze_inputs[k].word, TRUE)
        /\ phase = "session" =>
              /\ \A i \in CardIds :
                    /\ ~cards[i].is_complete
                    /\ cards[i].image_path = NULL
                    /\ cards[i].audio_path = NULL
              /\ \A k \in DOMAIN cloze_cards :
                    /\ cloze_cards[k].selected_sentence = NULL
                    /\ cloze_cards[k].selected_word_form = NULL

\* C14: create_session builds each card from the analysis of that card's own
\* input word and keeps input order (vocabulary inputs in order, then cloze
\* inputs in order), whatever order the concurrent analyses complete in; the
\* session has one vocabulary card per vocabulary input and one cloze card
\* per cloze input, all incomplete, with null media paths, and the cloze
\* cards with no sentence selected.
C14_SessionFollowsInputs == [](C14_CardsFollowInputs)

\* C14 witness: create_session has returned a session of three cards of both
\* types whose words do not all have the same analysis.
C14_Witness ==
    /\ phase = "session"
    /\ Len(cards) = 3
    /\ vocabulary_cards # <<>>
    /\ cloze_cards # <<>>
    /\ \E i, j \in CardIds : ipa(cards[i]) # ipa(cards[j])

----------------------------------------------------------------------------
(* Media generation: claims *)

\* A request succeeded when it returned the path it wrote to; an image
\* request fails by raising, an audio request by returning None.
ImageSucceeded(i) == mtask[i].results[1] = get_media_path(cards[i], ".jpg")
ImageFailed(i) == mtask[i].results[1] = EXCEPTION
AudioSucceeded(i) == mtask[i].results[2] = get_media_path(cards[i], ".mp3")
AudioFailed(i) == mtask[i].results[2] \in {NULL, EXCEPTION}

Processed(i) == i \in DOMAIN mtask /\ mtask[i].pc = "done"

\* C4: after generate_media_for_session has processed a card, a failed image
\* (audio) request has left image_path (audio_path) null and a successful one
\* has set it to the card's canonical media path.
C4_FailedRequestLeavesPathNull ==
    \A i \in DOMAIN mtask :
        Processed(i) =>
            /\ ImageFailed(i) => cards[i].image_path = NULL
            /\ AudioFailed(i) => cards[i].audio_path = NULL
            /\ ImageSucceeded(i) => cards[i].image_path = get_media_path(cards[i], ".jpg")
            /\ AudioSucceeded(i) => cards[i].audio_path = get_media_path(cards[i], ".mp3")

\* C5, state part: a processed card has its audio path set whenever its audio
\* request succeeded and its image path set whenever its image request
\* succeeded, whatever the other request did; and when the gather has
\* returned every card has been processed.
C5_OutcomesIndependent ==
    /\ \A i \in DOMAIN mtask :
          Processed(i) =>
              /\ AudioSucceeded(i) => cards[i].audio_path = get_media_path(cards[i], ".mp3")
              /\ ImageSucceeded(i) => cards[i].image_path = get_media_path(cards[i], ".jpg")
    /\ phase = "media_done" => \A i \in CardIds : Processed(i)

\* C5, step part: during media generation a card changes only in the step
\* in which its own task handles its own results.
C5_OnlyOwnCardStep ==
    (phase = "media" /\ phase' \in {"media", "media_done"}) =>
        \A j \in CardIds :
            cards'[j] # cards[j] => (mtask[j].pc = "inside" /\ mtask'[j].pc = "done")

\* C5: in generate_media_for_session the outcomes are independent: within a
\* card a failed image request does not keep the audio path from being set
\* (and vice versa), and a failure for one card changes no field of another
\* card and does not stop the other cards from being processed.
C5_IndependentOutcomes == [](C5_OutcomesIndependent) /\ [][C5_OnlyOwnCardStep]_vars

\* C5 witness: the gather has returned with one card whose image request
\* failed and whose audio path is set, one whose audio request failed and
\* whose image path is set, and a third card with both paths set.
C5_Witness ==
    /\ phase = "media_done"
    /\ \E i, j, k \in CardIds :
          /\ i # j /\ j # k /\ i # k
          /\ ImageFailed(i) /\ AudioSucceeded(i)
          /\ cards[i].image_path = NULL /\ cards[i].audio_path # NULL
          /\ AudioFailed(j) /\ ImageSucceeded(j) /\ cards[j].image_path # NULL
          /\ ImageSucceeded(k) /\ AudioSucceeded(k)
          /\ cards[k].image_path # NULL /\ cards[k].audio_path # NULL

\* The requests in flight
ImagesInFlight == {i \in DOMAIN mtask : mtask[i].pc = "inside" /\ mtask[i].results[1] = PENDING}
AudiosInFlight == {i \in DOMAIN mtask : mtask[i].pc = "inside" /\ mtask[i].results[2] = PENDING}

\* C6: at every instant at most MAX_CONCURRENT_OPERATIONS (2) cards are
\* inside media generation, so at most 2 image and at most 2 audio requests
\* are in flight, and at most 2 analyze_word calls are in flight during
\* create_session.
C6_AtMostTwoInFlight ==
    /\ Cardinality(Holding(mtask, "inside")) <= 2
    /\ Cardinality(ImagesInFlight) <= 2
    /\ Cardinality(AudiosInFlight) <= 2
    /\ Cardinality(Holding(atask, "running")) <= 2

\* C6 witness: three words went through the analysis, two cards are inside
\* media generation with their requests in flight and a third one waits.
C6_Witness ==
    /\ Len(atask) >= 3
    /\ Cardinality(Holding(mtask, "inside")) = 2
    /\ Cardinality(ImagesInFlight) = 2
    /\ Cardinality(AudiosInFlight) = 2
    /\ \E i \in DOMAIN mtask : mtask[i].pc = "waiting"

\* C31: after generate_media_for_session, a card's audio_path (image_path)
\* is non-null only if that card's audio (image) request succeeded; when the
\* text-to-speech call returns None instead of raising, audio_path stays
\* null.
C31_PathSetOnlyOnSuccess ==
    phase = "media_done" =>
        \A i \in CardIds :
            /\ cards[i].image_path # NULL => ImageSucceeded(i)
            /\ cards[i].audio_path # NULL => AudioSucceeded(i)
            /\ mtask[i].results[2] = NULL => cards[i].audio_path = NULL

\* Both requests of card i have ended
BothFinished(i) == mtask[i].results[1] # PENDING /\ mtask[i].results[2] # PENDING

\* C34, state: a card that waits or is inside has no path written yet, a
\* card that waits has no request ended, and a card that has left the
\* semaphore has both requests ended.
C34_SlotHeld ==
    phase = "media" =>
        \A i \in DOMAIN mtask :
            /\ mtask[i].pc \in {"waiting", "inside"} =>
                  cards[i].image_path = NULL /\ cards[i].audio_path = NULL
            /\ mtask[i].pc = "waiting" => mtask[i].results = <<PENDING, PENDING>>
            /\ mtask[i].pc = "done" => BothFinished(i)

\* C34, step: a card leaves the semaphore, and has its paths written, only
\* in a step taken when both its requests have ended; a card is admitted
\* only while fewer than MAX_CONCURRENT_OPERATIONS cards are inside, so with
\* all slots taken only after one of those cards has finished both.
C34_SlotStep ==
    phase = "media" =>
        \A i \in DOMAIN mtask :
            /\ (mtask[i].pc = "inside" /\ mtask'[i].pc # "inside") =>
                  BothFinished(i) /\ mtask'[i].pc = "done"
            /\ cards'[i] # cards[i] =>
                  BothFinished(i) /\ mtask[i].pc = "inside" /\ mtask'[i].pc = "done"
            /\ (mtask[i].pc = "waiting" /\ mtask'[i].pc # "waiting") =>
                  /\ mtask'[i].pc = "inside"
                  /\ Cardinality(Holding(mtask, "inside")) < MAX_CONCURRENT_OPERATIONS
                  /\ \A j \in Holding(mtask, "inside") : mtask'[j].pc = "inside"

\* C34: in generate_media_for_session a card holds its semaphore slot from
\* admission until both its image request and its audio request have
\* finished (each successfully or not): the card's path fields are written
\* only after both have finished, and a waiting card is admitted only after
\* an admitted card has finished both.
C34_SlotHeldUntilBothFinish == [](C34_SlotHeld) /\ [][C34_SlotStep]_vars

\* C34 witness: the third card is inside, admitted after the first one had
\* finished both requests, while the second one still waits for its audio.
C34_Witness ==
    /\ phase = "media"
    /\ Len(mtask) >= 3
    /\ mtask[1].pc = "done" /\ BothFinished(1)
    /\ mtask[2].pc = "inside" /\ mtask[2].results[1] = EXCEPTION /\ mtask[2].results[2] = PENDING
    /\ mtask[3].pc = "inside"

\* C35, state: a card that waits has had no request issued, every other
\* card exactly one image and one audio request, and a review action has
\* made at most one generation request.
C35_RequestsIssued ==
    /\ \A i \in DOMAIN mtask :
          mtask[i].issued = IF mtask[i].pc = "waiting" THEN <<0, 0>> ELSE <<1, 1>>
    /\ phase \in {"media_done", "review", "reviewed"} => DOMAIN mtask = CardIds
    /\ requested <= 1
    /\ requested = 1 <=> action \in {"regen_image", "regen_audio"}

\* C35, step: a request that has ended, successfully or not, is not issued
\* again by generate_media_for_session: its result stays.
C35_NoRetryStep ==
    \A i \in DOMAIN mtask :
        /\ i \in DOMAIN mtask'
        /\ \A r \in {1, 2} :
              mtask[i].results[r] # PENDING => mtask'[i].results[r] = mtask[i].results[r]

\* C35: generate_media_for_session issues exactly one image request and
\* exactly one audio request per card of the session and never re-issues a
\* failed one; each invocation of regenerate_image / regenerate_audio makes
\* at most one generation request.
C35_OneRequestEach == [](C35_RequestsIssued) /\ [][C35_NoRetryStep]_vars

\* C35 witness: the image request of the card under review raised during
\* the media generation and was not issued again, and the regeneration the
\* user then asked for has failed after its one request.
C35_Witness ==
    /\ InCardLoop
    /\ mtask[selected_card].results[1] = EXCEPTION
    /\ mtask[selected_card].issued = <<1, 1>>
    /\ action = "regen_image"
    /\ success = "False"
    /\ requested = 1
    /\ cards[selected_card].image_path = NULL

\* The order in which a task passes its positions
Rank(pc) == CASE pc = "waiting" -> 0 [] pc = "inside" -> 1 [] OTHER -> 2

\* C36, step: a task goes from waiting to inside to done, one position at a
\* time and never back, so that a card is processed once.
C36_OnceStep ==
    phase = "media" =>
        \A i \in DOMAIN mtask :
            /\ Rank(mtask'[i].pc) \in {Rank(mtask[i].pc), Rank(mtask[i].pc) + 1}
            /\ mtask[i].issued[1] <= mtask'[i].issued[1]

\* C36: if every external image and audio call eventually returns or raises,
\* generate_media_for_session terminates after having processed every card
\* of the session exactly once: a semaphore slot is released when a card
\* finishes whether its requests succeeded or failed, so no card waits
\* forever for admission.
C36_MediaTerminates ==
    /\ (phase = "session") ~> (phase = "media_done" /\ \A i \in CardIds : Processed(i))
    /\ [](\A i \in DOMAIN mtask : mtask[i].pc = "done" => (i \notin Holding(mtask, "inside")))
    /\ [][C36_OnceStep]_vars

\* C36 witness: the gather has returned for three cards, the first two of
\* which had their image request raise.
C36_Witness ==
    /\ phase = "media_done"
    /\ Len(mtask) >= 3
    /\ mtask[1].results[1] = EXCEPTION
    /\ mtask[2].results[1] = EXCEPTION
    /\ \A i \in CardIds : Processed(i)


\* C37, state part: among the cards that have been processed, whether a path
\* field is set depends on the outcome of the card's own request only (two
\* cards whose image requests ended alike have their image_path alike, and
\* so for the audio), and a path that is set is the card's own media path.
C37_OwnOutcomeOnly ==
    /\ \A i \in DOMAIN mtask :
          Processed(i) =>
              /\ cards[i].image_path \in {NULL, get_media_path(cards[i], ".jpg")}
              /\ cards[i].audio_path \in {NULL, get_media_path(cards[i], ".mp3")}
              /\ \A j \in DOMAIN mtask :
                    Processed(j) =>
                        /\ (ImageSucceeded(i) <=> ImageSucceeded(j)) =>
                              (cards[i].image_path = NULL <=> cards[j].image_path = NULL)
                        /\ (AudioSucceeded(i) <=> AudioSucceeded(j)) =>
                              (cards[i].audio_path = NULL <=> cards[j].audio_path = NULL)
    /\ phase = "media_done" => \A i \in CardIds : Processed(i)

\* C37, step part: a step of the media generation changes at most one card,
\* the card of the task that handles its results in that step, and of that
\* card nothing but image_path and audio_path, which become what the task's
\* own results make of them.
C37_DisjointWritesStep ==
    (phase = "media" /\ phase' \in {"media", "media_done"}) =>
        \A j \in CardIds :
            cards'[j] # cards[j] =>
                /\ mtask[j].pc = "inside" /\ mtask'[j].pc = "done"
                /\ cards'[j] = [cards[j] EXCEPT !.image_path = cards'[j].image_path,
                                                !.audio_path = cards'[j].audio_path]
                /\ cards'[j] = MediaHandled(cards[j], mtask[j].results)
                /\ \A k \in CardIds \ {j} : cards'[k] = cards[k]

\* C37: the card fields after generate_media_for_session are the same for
\* every interleaving of the concurrent tasks: each task writes only the
\* image_path and audio_path of its own card, and the final value of each
\* field depends only on whether that card's own request succeeded, not on
\* admission or completion order.
C37_InterleavingIndependent == [](C37_OwnOutcomeOnly) /\ [][C37_DisjointWritesStep]_vars

\* C37 witness: the gather has returned for three cards, more than the
\* semaphore admits at once; the image requests of the first and the last
\* failed, the one of the second succeeded, and the fields are set
\* accordingly.
C37_Witness ==
    /\ phase = "media_done"
    /\ Len(mtask) >= 3
    /\ ImageFailed(1) /\ ImageSucceeded(2) /\ ImageFailed(3)
    /\ cards[1].image_path = NULL
    /\ cards[3].image_path = NULL
    /\ cards[2].image_path = get_media_path(cards[2], ".jpg")
    /\ AudioSucceeded(1) /\ AudioSucceeded(3)
    /\ cards[1].audio_path # NULL /\ cards[3].audio_path # NULL


\* C38: whenever a cloze card has been approved through the review path, the
\* audio file it references was generated from its currently selected
\* sentence, not from the bare word or from a previously selected sentence.
C38_AudioOfSelectedSentence ==
    (phase \in {"review", "reviewed"} /\ ~auto_approve) =>
        \A i \in CardIds :
            (IsClozeCard(cards[i]) /\ cards[i].is_complete) =>
                /\ cards[i].audio_path \in DOMAIN disk
                /\ disk[cards[i].audio_path].text = cards[i].selected_sentence


\* The files on disk that the card names in its path fields
ReferencedFiles(card, d) == {card.image_path, card.audio_path} \cap DOMAIN d

\* C39, step: a regenerate_image / regenerate_audio that returns False has
\* changed neither the path fields of the card nor the files they named
\* before the call.
C39_FailedRegenerationStep ==
    (InCardLoop /\ requested' = 1 /\ success' = "False") =>
        LET card == cards[selected_card]
            after == cards'[selected_card]
        IN  /\ after.image_path = card.image_path
            /\ after.audio_path = card.audio_path
            /\ \A p \in ReferencedFiles(card, disk) :
                  p \in DOMAIN disk' /\ disk'[p] = disk[p]

\* C39: a failed regenerate_image / regenerate_audio leaves the previously
\* generated media file on disk intact as well as the path field: after a
\* failed regeneration, the file the card still references is the complete
\* earlier image/audio, so a later Approve (which checks only that the file
\* exists) cannot approve truncated or partial media.
C39_FailedRegenerationKeepsFile == [][C39_FailedRegenerationStep]_vars

====
